---- MODULE Spec2Model ----
(***************************************************************************)
(* Model of the order / loyalty / promotion / payment core of the          *)
(* restaurant API (src/app/routes/{orders,menus,loyalty,promotions,        *)
(* payments}.py).  Every handler is a coroutine: each `await db....` is    *)
(* one atomic database operation, and other requests may run between two   *)
(* awaits of one handler.  Money is modelled in whole currency units.      *)
(***************************************************************************)
EXTENDS Integers, Sequences, FiniteSets, TLC

\* ---------------------------------------------------------------- bounds
MaxOrders == 2          \* order rows created in the stock specifications
MaxRows == 1            \* order rows created in the order-life specification
MaxItems == 2           \* lines of one request when only creations race
MaxLines == 1           \* lines of one request where delivery orders are created
MaxQty == 1             \* quantity of one order line
MaxStock == 1           \* largest quantity staff set on a dish
MaxTx == 3              \* loyalty transactions inserted
MaxUses == 2            \* largest usage limit a promotion is created with
MaxIncrements == 3      \* usage increments of the promotion
MaxNow == 2             \* days the clock advances
MaxGatewayCalls == 3    \* calls of the payment gateway
MaxAddresses == 2       \* Address rows created by delivery orders

\* ------------------------------------------------------ program constants
DELIVERY_FEE == 50
MAX_PUBLIC_ORDER_AMOUNT == 1000

\* --------------------------------------------------------- fixed catalogue
NoUser == 0             \* Python None for userId
NoTable == 0            \* Python None for tableId
Dishes == {1}
MissingDish == 2
Restaurants == {1, 2}
Tables == {1, 2}
Users == {1}
InitQuantity == MaxStock
InitPrice == 600

OrderTypes == {"DINE_IN", "TAKEAWAY", "DELIVERY"}
OrderStatuses == {"PENDING", "CONFIRMED", "PREPARING", "READY",
                  "OUT_FOR_DELIVERY", "COMPLETED", "CANCELLED"}
PaymentStatuses == {"PENDING", "PAID", "FAILED", "REFUNDED"}

\* restaurant 1 is active, restaurant 2 is soft-deleted
RestaurantIsActive(r) == r = 1
\* table 1 is active, table 2 is inactive; both belong to restaurant 1
TableIsActive(t) == t = 1
TableRestaurant(t) == 1

VARIABLES
    dish,        \* dish id -> [price, quantity, isAvailable]
    orders,      \* sequence of Order rows, id = index
    orderItems,  \* set of OrderItem rows; line = position in its order
    creq,        \* order-creation request slot -> handler state
    created,     \* ids of orders whose creation answered 200
    cards,       \* user id -> LoyaltyCard [exists, points, rows]; card id = user id
    ltx,         \* sequence of LoyaltyTransaction rows, id = index
    lreq,        \* loyalty request slot -> handler state
    promo,       \* the Promotion row with id 1
    preq,        \* increment-usage request slot -> handler state
    now,         \* datetime.now(), in days
    quote,       \* the last answer of /promotions/calculate
    payments,    \* set of Payment rows
    gatewayCalls,\* requests the payment gateway has received
    payreq,      \* initiate-payment request slot -> handler state
    addresses,   \* number of Address rows
    publicStatus,\* the last answer of GET /orders/public/status/{order_number}
    confirmation,\* the last answer of GET /payments/callback
    environment, \* settings.ENVIRONMENT
    otpcodes,    \* sequence of OtpCode rows, id = index
    sreq,        \* the send-OTP request being served
    vreq,        \* verify-OTP request slot -> handler state
    reservations,\* sequence of Reservation rows, id = index
    rreq,        \* reservation-creation request slot -> handler state
    temps,       \* user ids that temporary 2FA tokens were issued for
    tokens,      \* access tokens returned: [userId, otpId]
    slogin,      \* the staff-login request being served
    authAnswer   \* the last answer of /auth/login and /auth/staff-login

orderVars == <<dish, orders, orderItems, creq, created>>
loyaltyVars == <<cards, ltx, lreq>>
promoVars == <<promo, preq, now, quote>>
payVars == <<payments, gatewayCalls, payreq>>
otpVars == <<environment, otpcodes, sreq, vreq>>
resVars == <<reservations, rreq>>
authVars == <<temps, tokens, slogin, authAnswer>>
moreVars == <<resVars, authVars>>
extraVars == <<otpVars, moreVars>>
restVars == <<addresses, publicStatus, confirmation, extraVars>>

vars == <<orderVars, loyaltyVars, promoVars, payVars, restVars>>

\* two clients send order-creation requests, each one request at a time
Reqs == {1, 2}

IdleReq == [pc |-> "idle"]

\* a finished request keeps only what the response and the access log show
DoneReq(kind, type, tableId, status, detail, orderId) ==
    [pc |-> "done", kind |-> kind, type |-> type,
     status |-> status, detail |-> detail, orderId |-> orderId]

\* lines that ask for any quantity of a dish of the catalogue
DishLines == [dishId : Dishes, quantity : 1..MaxQty]

\* lines a request may carry: those, or one of a dish id that is not in the
\* catalogue
ItemLines == DishLines \cup [dishId : {MissingDish}, quantity : {1}]

ItemLists(lines, maxLen) == UNION {[1..n -> lines] : n \in 0..maxLen}

\* the public endpoint takes dine-in orders only
PublicTypeAllowedAnyButDelivery(type) == type # "DELIVERY"

PublicTypeAllowed(type) == type = "DINE_IN"

\* a delivery fee charged on everything that is not eaten in
DeliveryFeeUnlessDineIn(type) == IF type # "DINE_IN" THEN DELIVERY_FEE ELSE 0

\* delivery fee of an order type
DeliveryFee(type) == IF type = "DELIVERY" THEN DELIVERY_FEE ELSE 0

\* total of an order
TotalAmount(subtotal, fee, discount) == subtotal + fee - discount

\* a decrement of the quantity the dish has at the time of the write
NewQuantityDecrement(snapshotQuantity, currentQuantity, n) == currentQuantity - n

\* quantity written back to the dish after an order line
NewQuantity(snapshotQuantity, currentQuantity, n) == snapshotQuantity - n

\* the catalogue as seeded, no order yet
NoOrders ==
    /\ dish = [d \in Dishes |->
                 [price |-> InitPrice, quantity |-> InitQuantity, isAvailable |-> TRUE]]
    /\ orders = <<>>
    /\ orderItems = {}
    /\ creq = [r \in Reqs |-> IdleReq]
    /\ created = {}

\* slots that hold a request or its unsent response
Busy == Cardinality({r \in Reqs : creq[r].pc # "idle"})

\* Entry of create_public_order / create_order up to the item loop:
\* request-model validation, the public guards, restaurant and table lookup.
\* `cap` bounds the order table, `shapes` is the set of
\* [kind, type, tableId, restaurantId, hasAddress] and `lists` the set of
\* item lists the requests are drawn from.
Entry(r, cap, shapes, lists) ==
    /\ creq[r].pc = "idle"
    /\ Len(orders) + Busy < cap
    /\ \E sh \in shapes, items \in lists :
        LET kind == sh.kind
            type == sh.type
            tableId == sh.tableId
            restaurantId == sh.restaurantId
            hasAddress == sh.hasAddress
        IN
        LET user == IF kind = "public" THEN NoUser ELSE CHOOSE u \in Users : TRUE
            reject(status, detail) ==
                creq' = [creq EXCEPT ![r] =
                            DoneReq(kind, type, tableId, status, detail, 0)]
        IN  IF Len(items) = 0
            THEN reject(422, "items")
            ELSE IF kind = "public" /\ ~PublicTypeAllowed(type)
            THEN reject(403, "dine-in only")
            ELSE IF kind = "public" /\ tableId = NoTable
            THEN reject(400, "table required")
            ELSE IF kind = "auth" /\ type = "DELIVERY" /\ ~hasAddress
            THEN reject(400, "address required")
            ELSE IF ~RestaurantIsActive(restaurantId)
            THEN reject(404, "restaurant")
            ELSE IF tableId # NoTable
                    /\ (TableRestaurant(tableId) # restaurantId \/ ~TableIsActive(tableId))
            THEN reject(404, "table")
            ELSE creq' = [creq EXCEPT ![r] =
                            [pc |-> "validate", kind |-> kind, user |-> user,
                             type |-> type, tableId |-> tableId,
                             restaurantId |-> restaurantId, items |-> items,
                             i |-> 1, validated |-> <<>>, subtotal |-> 0,
                             orderId |-> 0]]
    /\ UNCHANGED <<dish, orders, orderItems, created, loyaltyVars, promoVars, payVars>>

\* create_public_order / create_order called by a client: no Address row is
\* written
CreateStart(r, cap, shapes, lists) ==
    /\ Entry(r, cap, shapes, lists)
    /\ UNCHANGED restVars

\* create_delivery_order: the item list is validated with the body; the
\* stored address of the profile is used, or one Address row is created
\* from the custom address of the body; then create_order runs on a DELIVERY
\* order without a table
DeliveryStart(r, cap, restaurantId, items, useStoredAddress) ==
    /\ Entry(r, cap, {[kind |-> "auth", type |-> "DELIVERY", tableId |-> NoTable,
                       restaurantId |-> restaurantId, hasAddress |-> TRUE]}, {items})
    /\ addresses' = IF Len(items) = 0 \/ useStoredAddress THEN addresses ELSE addresses + 1
    /\ UNCHANGED <<publicStatus, confirmation, extraVars>>

\* One pass of the validation loop: read the dish, check it, add the line.
ValidateItem(r) ==
    /\ creq[r].pc = "validate"
    /\ LET q == creq[r]
           item == q.items[q.i]
           reject(status, detail) ==
               creq' = [creq EXCEPT ![r] =
                           DoneReq(q.kind, q.type, q.tableId, status, detail, 0)]
       IN  IF item.dishId \notin DOMAIN dish
           THEN reject(404, "dish")
           ELSE LET d == dish[item.dishId]
                    item_total == d.price * item.quantity
                IN  IF ~d.isAvailable
                    THEN reject(400, "unavailable")
                    ELSE IF d.quantity < item.quantity
                    THEN reject(400, "insufficient stock")
                    ELSE creq' = [creq EXCEPT ![r] =
                            [q EXCEPT
                               !.validated = Append(@,
                                   [dishId |-> item.dishId,
                                    dishQuantity |-> d.quantity,
                                    quantity |-> item.quantity,
                                    unitPrice |-> d.price,
                                    totalPrice |-> item_total]),
                               !.subtotal = @ + item_total,
                               !.i = IF q.i = Len(q.items) THEN 1 ELSE q.i + 1,
                               !.pc = IF q.i = Len(q.items) THEN "insert" ELSE "validate"]]
    /\ UNCHANGED <<dish, orders, orderItems, created, loyaltyVars, promoVars, payVars,
                 restVars>>

\* Fee, total, the public ceiling, and db.order.create.
InsertOrder(r) ==
    /\ creq[r].pc = "insert"
    /\ LET q == creq[r]
           delivery_fee == DeliveryFee(q.type)
           discount == 0
           total_amount == TotalAmount(q.subtotal, delivery_fee, discount)
       IN  IF q.kind = "public" /\ total_amount > MAX_PUBLIC_ORDER_AMOUNT
           THEN /\ creq' = [creq EXCEPT ![r] =
                              DoneReq(q.kind, q.type, q.tableId, 400, "amount ceiling", 0)]
                /\ UNCHANGED orders
           ELSE /\ orders' = Append(orders,
                      [userId |-> q.user, restaurantId |-> q.restaurantId,
                       tableId |-> q.tableId, type |-> q.type,
                       status |-> "PENDING", subtotal |-> q.subtotal,
                       deliveryFee |-> delivery_fee, discount |-> discount,
                       totalAmount |-> total_amount, paymentStatus |-> "PENDING"])
                /\ creq' = [creq EXCEPT ![r] =
                              [q EXCEPT !.pc = "item", !.orderId = Len(orders) + 1]]
    /\ UNCHANGED <<dish, orderItems, created, loyaltyVars, promoVars, payVars,
                 restVars>>

\* the price of the dish at the time the line is inserted
UnitPriceAtInsert(validatedPrice, currentPrice) == currentPrice

\* unitPrice of an OrderItem: the price kept with the validated line
UnitPrice(validatedPrice, currentPrice) == validatedPrice

\* db.orderitem.create for the current line.
InsertItem(r) ==
    /\ creq[r].pc = "item"
    /\ LET q == creq[r]
           v == q.validated[q.i]
       IN  /\ orderItems' = orderItems \cup
                  {[orderId |-> q.orderId, line |-> q.i, dishId |-> v.dishId,
                    quantity |-> v.quantity,
                    unitPrice |-> UnitPrice(v.unitPrice, dish[v.dishId].price),
                    totalPrice |-> v.totalPrice]}
           /\ creq' = [creq EXCEPT ![r] = [q EXCEPT !.pc = "stock"]]
    /\ UNCHANGED <<dish, orders, created, loyaltyVars, promoVars, payVars,
                 restVars>>

\* db.dish.update for the current line: the dish read during validation,
\* less the ordered quantity.  The last line ends the handler with 200.
UpdateStock(r) ==
    /\ creq[r].pc = "stock"
    /\ LET q == creq[r]
           v == q.validated[q.i]
       IN  /\ dish' = [dish EXCEPT ![v.dishId].quantity =
                          NewQuantity(v.dishQuantity, @, v.quantity)]
           /\ IF q.i = Len(q.validated)
              THEN /\ creq' = [creq EXCEPT ![r] =
                                 DoneReq(q.kind, q.type, q.tableId, 200, "ok", q.orderId)]
                   /\ created' = created \cup {q.orderId}
              ELSE /\ creq' = [creq EXCEPT ![r] =
                                 [q EXCEPT !.pc = "item", !.i = q.i + 1]]
                   /\ UNCHANGED created
    /\ UNCHANGED <<orders, orderItems, loyaltyVars, promoVars, payVars,
                 restVars>>

\* The response is sent; the slot serves the next request.
Respond(r) ==
    /\ creq[r].pc = "done"
    /\ creq' = [creq EXCEPT ![r] = IdleReq]
    /\ UNCHANGED <<dish, orders, orderItems, created, loyaltyVars, promoVars, payVars,
                 restVars>>

\* db.order.create fails: the handler's except clause answers 400 and no row
\* has been written
InsertOrderFails(r) ==
    /\ creq[r].pc = "insert"
    /\ LET q == creq[r]
       IN  /\ ~(q.kind = "public"
                /\ TotalAmount(q.subtotal, DeliveryFee(q.type), 0) > MAX_PUBLIC_ORDER_AMOUNT)
           /\ creq' = [creq EXCEPT ![r] =
                          DoneReq(q.kind, q.type, q.tableId, 400, "Error creating order", 0)]
    /\ UNCHANGED <<dish, orders, orderItems, created, loyaltyVars, promoVars, payVars,
                 restVars>>

\* db.orderitem.create fails for the current line: the except clause answers
\* 400; nothing the handler has written is undone
InsertItemFails(r) ==
    /\ creq[r].pc = "item"
    /\ LET q == creq[r]
       IN  creq' = [creq EXCEPT ![r] =
                       DoneReq(q.kind, q.type, q.tableId, 400, "Error creating order", 0)]
    /\ UNCHANGED <<dish, orders, orderItems, created, loyaltyVars, promoVars, payVars,
                 restVars>>

\* db.dish.update fails for the current line: the except clause answers 400;
\* nothing the handler has written is undone
UpdateStockFails(r) ==
    /\ creq[r].pc = "stock"
    /\ LET q == creq[r]
       IN  creq' = [creq EXCEPT ![r] =
                       DoneReq(q.kind, q.type, q.tableId, 400, "Error creating order", 0)]
    /\ UNCHANGED <<dish, orders, orderItems, created, loyaltyVars, promoVars, payVars,
                 restVars>>


\* ------------------------------------------------------------- principals
\* [role, restaurantId]; restaurantId 0 is None
Admin == [role |-> "ADMIN", restaurantId |-> 0]
ManagerR1 == [role |-> "MANAGER", restaurantId |-> 1]
WaiterR1 == [role |-> "WAITER", restaurantId |-> 1]
WaiterR2 == [role |-> "WAITER", restaurantId |-> 2]
Client == [role |-> "CLIENT", restaurantId |-> 0]
Actors == {Admin, ManagerR1, WaiterR1, WaiterR2, Client}

StaffRoles == {"WAITER", "CHEF", "MANAGER", "ADMIN"}

\* every dish of the catalogue is on a menu of restaurant 1
DishRestaurant(d) == 1

\* get_current_staff_user, then the handlers' restaurant check
MayManageDish(actor, d) ==
    /\ actor.role \in StaffRoles
    /\ actor.role = "ADMIN" \/ actor.restaurantId = DishRestaurant(d)

\* update_dish_quantity: one db.dish.update of quantity and isAvailable
UpdateDishQuantity(d, quantity, actor) ==
    /\ d \in DOMAIN dish
    /\ MayManageDish(actor, d)
    /\ quantity >= 0
    /\ dish' = [dish EXCEPT ![d].quantity = quantity,
                            ![d].isAvailable = (quantity > 0)]
    /\ UNCHANGED <<orders, orderItems, creq, created, loyaltyVars, promoVars, payVars,
                 restVars>>

Unset == -1

\* DishUpdate bodies: each field is optional (Unset / "unset" when absent)
DishUpdateData(prices) ==
    [quantity : {Unset} \cup 0..MaxStock,
     price : {Unset} \cup prices,
     isAvailable : {"unset", "true", "false"}]

\* update_dish: one db.dish.update of the fields the body sets
UpdateDish(d, data, actor) ==
    /\ d \in DOMAIN dish
    /\ actor.role \in {"MANAGER", "ADMIN"}
    /\ actor.role = "ADMIN" \/ actor.restaurantId = DishRestaurant(d)
    /\ data.quantity # Unset \/ data.price # Unset \/ data.isAvailable # "unset"
    /\ data.quantity = Unset \/ data.quantity >= 0
    /\ data.price = Unset \/ data.price > 0
    /\ dish' = [dish EXCEPT ![d] =
                  [quantity |-> IF data.quantity = Unset THEN @.quantity ELSE data.quantity,
                   price |-> IF data.price = Unset THEN @.price ELSE data.price,
                   isAvailable |-> IF data.isAvailable = "unset" THEN @.isAvailable
                                   ELSE data.isAvailable = "true"]]
    /\ UNCHANGED <<orders, orderItems, creq, created, loyaltyVars, promoVars, payVars,
                 restVars>>

\* update_order_status: staff of the order's restaurant set any status
UpdateOrderStatus(o, newStatus, actor) ==
    /\ o \in DOMAIN orders
    /\ actor.role \in StaffRoles
    /\ actor.role = "ADMIN" \/ actor.restaurantId = orders[o].restaurantId
    /\ orders' = [orders EXCEPT ![o].status = newStatus]
    /\ UNCHANGED <<dish, orderItems, creq, created, loyaltyVars, promoVars, payVars,
                 restVars>>

\* the order after its payment was confirmed, had the callback only
\* confirmed payments that were pending
AfterCallbackOfPending(order) ==
    IF order.paymentStatus = "PENDING" THEN [order EXCEPT !.paymentStatus = "PAID"]
    ELSE order

\* the order after its payment was confirmed
AfterCallback(order) == [order EXCEPT !.paymentStatus = "PAID"]

\* payment_callback: the order number is the only input; for an unknown
\* number the 404 raised inside the try block is answered as 500
PaymentCallback(o) ==
    /\ orders' = IF o \in DOMAIN orders THEN [orders EXCEPT ![o] = AfterCallback(@)]
                 ELSE orders
    /\ confirmation' = IF o \in DOMAIN orders
                       THEN [number |-> o, status |-> 200, paymentStatus |-> "PAID"]
                       ELSE [number |-> o, status |-> 500, paymentStatus |-> ""]
    /\ UNCHANGED <<dish, orderItems, creq, created, loyaltyVars, promoVars, payVars,
                 addresses, publicStatus, extraVars>>

\* update_payment_status: staff override of paymentStatus
UpdatePaymentStatus(o, newStatus, actor) ==
    /\ newStatus \in PaymentStatuses
    /\ o \in DOMAIN orders
    /\ actor.role \in StaffRoles
    /\ ~(actor.restaurantId # 0 /\ actor.restaurantId # orders[o].restaurantId)
    /\ orders' = [orders EXCEPT ![o].paymentStatus = newStatus]
    /\ UNCHANGED <<dish, orderItems, creq, created, loyaltyVars, promoVars, payVars,
                 restVars>>

\* get_public_order_status shows the orders that have no owning user
PublicOrderVisibleAlways(order) == TRUE

PublicOrderVisible(order) == order.userId = NoUser

\* order numbers are modelled by order ids; 404 "Order not found"
OrderNotFound(number) ==
    [number |-> number, status |-> 404, detail |-> "Order not found",
     order |-> <<>>, items |-> {}]

\* get_public_order_status: one lookup of the order with its items, no write
GetPublicStatus(number) ==
    /\ publicStatus' =
          IF number \notin DOMAIN orders
          THEN OrderNotFound(number)
          ELSE IF ~PublicOrderVisible(orders[number])
          THEN OrderNotFound(number)
          ELSE [number |-> number, status |-> 200, detail |-> "",
                order |-> <<orders[number]>>,
                items |-> {it \in orderItems : it.orderId = number}]
    /\ UNCHANGED <<addresses, confirmation, extraVars, orderVars, loyaltyVars, promoVars,
                 payVars>>

\* toggle_dish_availability: the flag is read and its negation written back
ToggleDishAvailability(d, actor) ==
    /\ d \in DOMAIN dish
    /\ MayManageDish(actor, d)
    /\ dish' = [dish EXCEPT ![d].isAvailable = ~@]
    /\ UNCHANGED <<orders, orderItems, creq, created, loyaltyVars, promoVars, payVars,
                 restVars>>

\* ---------------------------------------------------------------- loyalty
\* get_loyalty_program_info
POINTS_PER_DOLLAR == 1
MINIMUM_REDEMPTION == 100

NoOrder == 0            \* Python None for orderId

\* two loyalty requests may be in flight at once
LReqs == {1, 2}

IdleLoyalty == [pc |-> "idle"]

\* a loyalty request as it enters its handler: `asked` is pointsToRedeem,
\* orderAmount or points of the body, `points` the signed delta of the
\* transaction, `cardPoints` the balance the handler has read
LoyaltyReq(kind, cardId, restaurantId, asked, points, type, orderId) ==
    [pc |-> "start", kind |-> kind, cardId |-> cardId, restaurantId |-> restaurantId,
     asked |-> asked, points |-> points, type |-> type, orderId |-> orderId,
     cardPoints |-> 0, txId |-> 0]

\* a finished request: its inputs, what it read and wrote, and the answer
DoneLoyalty(q, status, detail) ==
    [pc |-> "done", kind |-> q.kind, cardId |-> q.cardId,
     restaurantId |-> q.restaurantId, asked |-> q.asked, cardPoints |-> q.cardPoints,
     txId |-> q.txId, status |-> status, detail |-> detail]

\* slots that hold a loyalty request or its unsent response
BusyLoyalty == Cardinality({r \in LReqs : lreq[r].pc # "idle"})

\* order amounts of award requests, in hundredths of the currency unit
OrderAmounts == {10050}

\* points rounded to the nearest whole number
PointsEarnedRounded(orderAmount) == (orderAmount * POINTS_PER_DOLLAR + 50) \div 100

\* int(orderAmount * pointsPerDollar)
PointsEarned(orderAmount) == (orderAmount * POINTS_PER_DOLLAR) \div 100

\* pointsToRedeem of redeem requests
RedeemPoints == {15, 50, 100}

\* PointsRedemptionRequest: pointsToRedeem > 0 and a multiple of 10
ValidRedemptionRequest(p) == p > 0 /\ p % 10 = 0

\* a program minimum that the amount must exceed
MinimumRedemptionExceeded(p) == p > MINIMUM_REDEMPTION

\* redeem_points: the amount reaches the program minimum
MinimumRedemptionMet(p) == p >= MINIMUM_REDEMPTION

\* bodies of manual transactions; LoyaltyTransactionCreate.validate_points
\* runs before `type` is validated and so rejects nothing
ManualBodies ==
    {[loyaltyCardId |-> 1, restaurantId |-> 1, points |-> 100, type |-> "EARNED",
      orderId |-> 1],
     [loyaltyCardId |-> 1, restaurantId |-> 1, points |-> 100, type |-> "BONUS",
      orderId |-> NoOrder],
     [loyaltyCardId |-> 1, restaurantId |-> 1, points |-> -100, type |-> "REDEEMED",
      orderId |-> NoOrder],
     [loyaltyCardId |-> 2, restaurantId |-> 1, points |-> 100, type |-> "BONUS",
      orderId |-> NoOrder]}

\* an EARNED transaction exists for the order
EarnedExists(orderId) ==
    \E i \in DOMAIN ltx : ltx[i].orderId = orderId /\ ltx[i].type = "EARNED"

\* the balance written back: the balance the handler read, plus the delta
NewPoints(cardPoints, points) == cardPoints + points

\* award_points_for_order up to its first query: the role check, the order
\* lookup and the checks on the order
AwardStart(r, cap, orderId, restaurantId, orderAmount, actor) ==
    /\ lreq[r].pc = "idle"
    /\ Len(ltx) + BusyLoyalty < cap
    /\ actor.role \in StaffRoles
    /\ orderAmount > 0
    /\ LET user == IF orderId \in DOMAIN orders THEN orders[orderId].userId ELSE NoUser
           q == LoyaltyReq("award", user, restaurantId, orderAmount,
                           PointsEarned(orderAmount), "EARNED", orderId)
           reject(status, detail) ==
               lreq' = [lreq EXCEPT ![r] = DoneLoyalty(q, status, detail)]
       IN  IF actor.role \notin {"ADMIN", "MANAGER", "WAITER"}
           THEN reject(403, "role")
           ELSE IF orderId \notin DOMAIN orders
           THEN reject(404, "order")
           ELSE IF orders[orderId].userId = NoUser
           THEN reject(400, "no registered user")
           ELSE IF actor.role # "ADMIN" /\ actor.restaurantId # orders[orderId].restaurantId
           THEN reject(403, "restaurant")
           ELSE IF orders[orderId].status # "COMPLETED"
           THEN reject(400, "not completed")
           ELSE lreq' = [lreq EXCEPT ![r] = [q EXCEPT !.pc = "duplicate"]]
    /\ UNCHANGED <<cards, ltx, orderVars, promoVars, payVars,
                 restVars>>

\* db.loyaltytransaction.find_first for an EARNED row of the order
AwardCheckDuplicate(r) ==
    /\ lreq[r].pc = "duplicate"
    /\ LET q == lreq[r]
       IN  IF EarnedExists(q.orderId)
           THEN lreq' = [lreq EXCEPT ![r] = DoneLoyalty(q, 400, "already awarded")]
           ELSE lreq' = [lreq EXCEPT ![r] = [q EXCEPT !.pc = "card"]]
    /\ UNCHANGED <<cards, ltx, orderVars, promoVars, payVars,
                 restVars>>

\* db.loyaltycard.find_unique for the customer of the order
AwardFindCard(r) ==
    /\ lreq[r].pc = "card"
    /\ LET q == lreq[r]
       IN  IF cards[q.cardId].exists
           THEN lreq' = [lreq EXCEPT ![r] =
                           [q EXCEPT !.pc = "insert", !.cardPoints = cards[q.cardId].points]]
           ELSE lreq' = [lreq EXCEPT ![r] = [q EXCEPT !.pc = "newcard"]]
    /\ UNCHANGED <<cards, ltx, orderVars, promoVars, payVars,
                 restVars>>

\* a LoyaltyCard table without the unique index on userId
InsertAllowedAlways(card) == TRUE

\* db.loyaltycard.create succeeds when no row has the userId, which is the
\* unique key find_unique looks rows up by
InsertAllowed(card) == ~card.exists

\* the card of a user after db.loyaltycard.create with 0 points; `rows` is
\* the number of LoyaltyCard rows of the user
NewCard(card) == [exists |-> TRUE, points |-> 0, rows |-> card.rows + 1]

\* db.loyaltycard.create with 0 points; the call is outside the handler's
\* try block
AwardCreateCard(r) ==
    /\ lreq[r].pc = "newcard"
    /\ LET q == lreq[r]
       IN  IF ~InsertAllowed(cards[q.cardId])
           THEN /\ lreq' = [lreq EXCEPT ![r] = DoneLoyalty(q, 500, "card exists")]
                /\ UNCHANGED cards
           ELSE /\ cards' = [cards EXCEPT ![q.cardId] = NewCard(@)]
                /\ lreq' = [lreq EXCEPT ![r] = [q EXCEPT !.pc = "insert", !.cardPoints = 0]]
    /\ UNCHANGED <<ltx, orderVars, promoVars, payVars,
                 restVars>>

\* redeem_points up to its first query: request validation, the card
\* lookup, the balance check and the program minimum
RedeemStart(r, cap, user, restaurantId, p) ==
    /\ lreq[r].pc = "idle"
    /\ Len(ltx) + BusyLoyalty < cap
    /\ LET q == LoyaltyReq("redeem", user, restaurantId, p, -p, "REDEEMED", NoOrder)
           reject(status, detail) ==
               lreq' = [lreq EXCEPT ![r] = DoneLoyalty(q, status, detail)]
       IN  IF ~ValidRedemptionRequest(p)
           THEN reject(422, "pointsToRedeem")
           ELSE IF ~cards[user].exists
           THEN reject(404, "no card")
           ELSE IF cards[user].points < p
           THEN lreq' = [lreq EXCEPT ![r] =
                           DoneLoyalty([q EXCEPT !.cardPoints = cards[user].points],
                                       400, "insufficient points")]
           ELSE IF ~MinimumRedemptionMet(p)
           THEN lreq' = [lreq EXCEPT ![r] =
                           DoneLoyalty([q EXCEPT !.cardPoints = cards[user].points],
                                       400, "minimum")]
           ELSE lreq' = [lreq EXCEPT ![r] =
                           [q EXCEPT !.pc = "restaurant", !.cardPoints = cards[user].points]]
    /\ UNCHANGED <<cards, ltx, orderVars, promoVars, payVars,
                 restVars>>

\* db.restaurant.find_unique: the restaurant exists and is active
RedeemFindRestaurant(r) ==
    /\ lreq[r].pc = "restaurant"
    /\ LET q == lreq[r]
       IN  IF q.restaurantId \notin Restaurants \/ ~RestaurantIsActive(q.restaurantId)
           THEN lreq' = [lreq EXCEPT ![r] = DoneLoyalty(q, 404, "restaurant")]
           ELSE lreq' = [lreq EXCEPT ![r] = [q EXCEPT !.pc = "insert"]]
    /\ UNCHANGED <<cards, ltx, orderVars, promoVars, payVars,
                 restVars>>

\* create_manual_loyalty_transaction up to its first query: the role and
\* restaurant checks, the card lookup and the balance check of a redemption
ManualStart(r, cap, data, actor) ==
    /\ lreq[r].pc = "idle"
    /\ Len(ltx) + BusyLoyalty < cap
    /\ actor.role \in StaffRoles
    /\ LET q == LoyaltyReq("manual", data.loyaltyCardId, data.restaurantId, data.points,
                           data.points, data.type, data.orderId)
           reject(status, detail) ==
               lreq' = [lreq EXCEPT ![r] = DoneLoyalty(q, status, detail)]
           abs == IF data.points < 0 THEN -data.points ELSE data.points
       IN  IF actor.role \notin {"ADMIN", "MANAGER"}
           THEN reject(403, "role")
           ELSE IF actor.role # "ADMIN" /\ actor.restaurantId # data.restaurantId
           THEN reject(403, "restaurant")
           ELSE IF data.loyaltyCardId \notin DOMAIN cards \/ ~cards[data.loyaltyCardId].exists
           THEN reject(404, "no card")
           ELSE IF data.type = "REDEEMED" /\ cards[data.loyaltyCardId].points < abs
           THEN reject(400, "insufficient points")
           ELSE lreq' = [lreq EXCEPT ![r] =
                           [q EXCEPT !.pc = "insert",
                                     !.cardPoints = cards[data.loyaltyCardId].points]]
    /\ UNCHANGED <<cards, ltx, orderVars, promoVars, payVars,
                 restVars>>

\* db.loyaltytransaction.create of any of the three handlers
InsertTransaction(r) ==
    /\ lreq[r].pc = "insert"
    /\ LET q == lreq[r]
       IN  /\ ltx' = Append(ltx,
                  [loyaltyCardId |-> q.cardId, restaurantId |-> q.restaurantId,
                   points |-> q.points, type |-> q.type, orderId |-> q.orderId])
           /\ lreq' = [lreq EXCEPT ![r] = [q EXCEPT !.pc = "update", !.txId = Len(ltx) + 1]]
    /\ UNCHANGED <<cards, orderVars, promoVars, payVars,
                 restVars>>

\* db.loyaltycard.update of any of the three handlers; when the write fails
\* (`ok` false) the handler's except clause answers 400
UpdateCard(r, ok) ==
    /\ lreq[r].pc = "update"
    /\ LET q == lreq[r]
       IN  IF ok
           THEN /\ cards' = [cards EXCEPT ![q.cardId].points = NewPoints(q.cardPoints, q.points)]
                /\ lreq' = [lreq EXCEPT ![r] = DoneLoyalty(q, 200, "ok")]
           ELSE /\ lreq' = [lreq EXCEPT ![r] = DoneLoyalty(q, 400, "write failed")]
                /\ UNCHANGED cards
    /\ UNCHANGED <<ltx, orderVars, promoVars, payVars,
                 restVars>>

\* get_my_loyalty_card / get_my_loyalty_stats up to the creation of the
\* card: db.loyaltycard.find_unique by userId; a card that exists is returned
MyCardFind(r, cap, user) ==
    /\ lreq[r].pc = "idle"
    /\ Len(ltx) + BusyLoyalty < cap
    /\ LET q == LoyaltyReq("card", user, 0, 0, 0, "", NoOrder)
       IN  IF cards[user].exists
           THEN lreq' = [lreq EXCEPT ![r] =
                           DoneLoyalty([q EXCEPT !.cardPoints = cards[user].points],
                                       200, "card")]
           ELSE lreq' = [lreq EXCEPT ![r] = [q EXCEPT !.pc = "mycard"]]
    /\ UNCHANGED <<cards, ltx, orderVars, promoVars, payVars,
                 restVars>>

\* get_my_loyalty_card / get_my_loyalty_stats: db.loyaltycard.create with 0
\* points, outside any try block; the new card is returned
MyCardCreate(r) ==
    /\ lreq[r].pc = "mycard"
    /\ LET q == lreq[r]
       IN  IF ~InsertAllowed(cards[q.cardId])
           THEN /\ lreq' = [lreq EXCEPT ![r] = DoneLoyalty(q, 500, "card exists")]
                /\ UNCHANGED cards
           ELSE /\ cards' = [cards EXCEPT ![q.cardId] = NewCard(@)]
                /\ lreq' = [lreq EXCEPT ![r] = DoneLoyalty(q, 200, "card")]
    /\ UNCHANGED <<ltx, orderVars, promoVars, payVars,
                 restVars>>

\* The response is sent; the slot serves the next request.
RespondLoyalty(r) ==
    /\ lreq[r].pc = "done"
    /\ lreq' = [lreq EXCEPT ![r] = IdleLoyalty]
    /\ UNCHANGED <<cards, ltx, orderVars, promoVars, payVars,
                 restVars>>

\* no loyalty card, no transaction, no loyalty request
NoLoyalty ==
    /\ cards = [u \in Users |-> [exists |-> FALSE, points |-> 0, rows |-> 0]]
    /\ ltx = <<>>
    /\ lreq = [r \in LReqs |-> IdleLoyalty]

\* ------------------------------------------------------------- promotions
NoLimit == 0            \* Python None for maxUses
NoMinimum == -1         \* Python None for minOrderAmount

\* two increment-usage requests may be in flight at once
PReqs == {1, 2}

IdlePromo == [pc |-> "idle"]

NoPromotion ==
    [exists |-> FALSE, restaurantId |-> 0, discountType |-> "PERCENTAGE",
     discountValue |-> 0, minOrderAmount |-> NoMinimum, startDate |-> 0, endDate |-> 0,
     maxUses |-> NoLimit, currentUses |-> 0, isActive |-> FALSE]

NoQuote ==
    [status |-> 0, orderAmount |-> 0, applicable |-> FALSE, discountAmount |-> 0,
     finalAmount |-> 0]

Min(a, b) == IF a < b THEN a ELSE b
Max(a, b) == IF a > b THEN a ELSE b

\* PromotionCreate bodies: a percentage or a 30-unit discount, at the active
\* or the inactive restaurant, for the one day that starts on day 1
PromotionBodies ==
    [restaurantId : Restaurants,
     discount : {<<"PERCENTAGE", 20>>, <<"FIXED_AMOUNT", 30>>, <<"PERCENTAGE", 120>>},
     minOrderAmount : {NoMinimum, 50},
     startDate : {1},
     length : {0, 1},
     maxUses : {NoLimit} \cup {MaxUses}]

\* PromotionCreate validation
ValidPromotionCreate(data) ==
    /\ data.discount[2] > 0
    /\ data.discount[1] = "PERCENTAGE" => data.discount[2] <= 100
    /\ data.minOrderAmount = NoMinimum \/ data.minOrderAmount >= 0
    /\ data.startDate >= now
    /\ data.length > 0
    /\ data.maxUses = NoLimit \/ data.maxUses > 0

\* create_promotion by a manager or an admin
CreatePromotion(data, actor) ==
    /\ ~promo.exists
    /\ ValidPromotionCreate(data)
    /\ actor.role \in {"ADMIN", "MANAGER"}
    /\ actor.role = "ADMIN" \/ actor.restaurantId = data.restaurantId
    /\ data.restaurantId \in Restaurants
    /\ promo' = [exists |-> TRUE, restaurantId |-> data.restaurantId,
                 discountType |-> data.discount[1], discountValue |-> data.discount[2],
                 minOrderAmount |-> data.minOrderAmount, startDate |-> data.startDate,
                 endDate |-> data.startDate + data.length, maxUses |-> data.maxUses,
                 currentUses |-> 0, isActive |-> TRUE]
    /\ UNCHANGED <<preq, now, quote, orderVars, loyaltyVars, payVars,
                 restVars>>

\* PromotionUpdate bodies: one field each (Unset / "unset" when absent)
PromotionUpdates ==
    {[discountValue |-> 200, minOrderAmount |-> Unset, maxUses |-> Unset, isActive |-> "unset"],
     [discountValue |-> Unset, minOrderAmount |-> 0, maxUses |-> Unset, isActive |-> "unset"],
     [discountValue |-> Unset, minOrderAmount |-> Unset, maxUses |-> 1, isActive |-> "unset"],
     [discountValue |-> Unset, minOrderAmount |-> Unset, maxUses |-> Unset, isActive |-> "false"],
     [discountValue |-> Unset, minOrderAmount |-> Unset, maxUses |-> Unset, isActive |-> "true"]}

\* update_promotion: the fields the body sets are written as they are
UpdatePromotion(data, actor) ==
    /\ promo.exists
    /\ actor.role \in {"ADMIN", "MANAGER"}
    /\ actor.role = "ADMIN" \/ actor.restaurantId = promo.restaurantId
    /\ data.discountValue = Unset \/ data.discountValue > 0
    /\ data.minOrderAmount = Unset \/ data.minOrderAmount >= 0
    /\ data.maxUses = Unset \/ data.maxUses > 0
    /\ promo' = [promo EXCEPT
                   !.discountValue = IF data.discountValue = Unset THEN @
                                     ELSE data.discountValue,
                   !.minOrderAmount = IF data.minOrderAmount = Unset THEN @
                                      ELSE data.minOrderAmount,
                   !.maxUses = IF data.maxUses = Unset THEN @ ELSE data.maxUses,
                   !.isActive = IF data.isActive = "unset" THEN @
                                ELSE data.isActive = "true"]
    /\ UNCHANGED <<preq, now, quote, orderVars, loyaltyVars, payVars,
                 restVars>>

\* slots that hold an increment-usage request or its unsent response
BusyPromo == Cardinality({r \in PReqs : preq[r].pc # "idle"})

\* Python truthiness of an optional number: None and 0 are false
Truthy(x, none) == x # none /\ x # 0

\* the usage limit as the handlers test it
UsageLimitReached(p) == Truthy(p.maxUses, NoLimit) /\ p.currentUses >= p.maxUses

\* increment_promotion_usage up to its write: the lookup, the restaurant
\* check and the usage limit
IncrementRead(r, actor) ==
    /\ preq[r].pc = "idle"
    /\ promo.currentUses + BusyPromo < MaxIncrements
    /\ actor.role \in StaffRoles
    /\ IF ~promo.exists
       THEN preq' = [preq EXCEPT ![r] = [pc |-> "done", status |-> 404, currentUses |-> 0]]
       ELSE IF actor.role # "ADMIN" /\ actor.restaurantId # promo.restaurantId
       THEN preq' = [preq EXCEPT ![r] = [pc |-> "done", status |-> 403, currentUses |-> 0]]
       ELSE IF UsageLimitReached(promo)
       THEN preq' = [preq EXCEPT ![r] =
                       [pc |-> "done", status |-> 400, currentUses |-> promo.currentUses]]
       ELSE preq' = [preq EXCEPT ![r] = [pc |-> "write", currentUses |-> promo.currentUses]]
    /\ UNCHANGED <<promo, now, quote, orderVars, loyaltyVars, payVars,
                 restVars>>

\* db.promotion.update of currentUses: the value read, plus one
IncrementWrite(r) ==
    /\ preq[r].pc = "write"
    /\ promo' = [promo EXCEPT !.currentUses = preq[r].currentUses + 1]
    /\ preq' = [preq EXCEPT ![r] =
                  [pc |-> "done", status |-> 200, currentUses |-> preq[r].currentUses + 1]]
    /\ UNCHANGED <<now, quote, orderVars, loyaltyVars, payVars,
                 restVars>>

\* The response is sent; the slot serves the next request.
RespondPromo(r) ==
    /\ preq[r].pc = "done"
    /\ preq' = [preq EXCEPT ![r] = IdlePromo]
    /\ UNCHANGED <<promo, now, quote, orderVars, loyaltyVars, payVars,
                 restVars>>

\* order amounts of calculate requests: orderAmount is a float with no
\* validator, so a negative amount reaches the handler
QuotedAmounts == {-5, 20, 40, 100}

\* the answer of calculate_promotion_discount for promotion p at time t;
\* the amounts and percentages of this model divide without remainder
PromotionQuote(p, t, orderAmount) ==
    LET no == [status |-> 200, orderAmount |-> orderAmount, applicable |-> FALSE,
               discountAmount |-> 0, finalAmount |-> orderAmount]
        discount_amount ==
            IF p.discountType = "PERCENTAGE"
            THEN (orderAmount * p.discountValue) \div 100
            ELSE Min(p.discountValue, orderAmount)
    IN  IF ~RestaurantIsActive(p.restaurantId) THEN no
        ELSE IF ~p.isActive THEN no
        ELSE IF t < p.startDate THEN no
        ELSE IF t > p.endDate THEN no
        ELSE IF UsageLimitReached(p) THEN no
        ELSE IF Truthy(p.minOrderAmount, NoMinimum) /\ orderAmount < p.minOrderAmount THEN no
        ELSE [status |-> 200, orderAmount |-> orderAmount, applicable |-> TRUE,
              discountAmount |-> discount_amount,
              finalAmount |-> Max(0, orderAmount - discount_amount)]

\* calculate_promotion_discount: one lookup, no write
Calculate(orderAmount) ==
    /\ quote' = IF promo.exists THEN PromotionQuote(promo, now, orderAmount)
                ELSE [NoQuote EXCEPT !.status = 404, !.orderAmount = orderAmount]
    /\ UNCHANGED <<promo, preq, now, orderVars, loyaltyVars, payVars,
                 restVars>>

\* a day passes
Tick ==
    /\ now < MaxNow
    /\ now' = now + 1
    /\ UNCHANGED <<promo, preq, quote, orderVars, loyaltyVars, payVars,
                 restVars>>

\* no promotion, no increment request, no quote
NoPromotions ==
    /\ promo = NoPromotion
    /\ preq = [r \in PReqs |-> IdlePromo]
    /\ now = 0
    /\ quote = NoQuote

\* --------------------------------------------------------------- payments
\* two initiate requests may be in flight at once
PayReqs == {1, 2}

IdlePay == [pc |-> "idle"]

\* callers of /payments/initiate: the client who owns the orders, another
\* client, and a waiter of restaurant 2
Owner == [role |-> "CLIENT", id |-> 1, restaurantId |-> 0]
Stranger == [role |-> "CLIENT", id |-> 2, restaurantId |-> 0]
Cashier == [role |-> "WAITER", id |-> 3, restaurantId |-> 2]

\* answers of the payment gateway: a payment form, an error status whose
\* body has the structure of a payment form, a body without "data", or no
\* answer within the timeout
GatewayAnswers == {"form", "refused", "malformed", "unreachable"}

\* a finished initiate request and its PaymentInitiateResponse
DonePay(orderId, status, success, error, calledGateway) ==
    [pc |-> "done", orderId |-> orderId, status |-> status, success |-> success,
     error |-> error, calledGateway |-> calledGateway]

\* slots that hold an initiate request or its unsent response
BusyPay == Cardinality({r \in PayReqs : payreq[r].pc # "idle"})

\* a Payment row exists for the order
PaymentExists(orderId) == \E p \in payments : p.orderId = orderId

\* initiate_payment up to the order lookup and the checks on the order; an
\* HTTPException raised inside the try block is caught by `except Exception`
\* and answered as 500
InitiateStart(r, cap, orderId, caller) ==
    /\ payreq[r].pc = "idle"
    /\ gatewayCalls + BusyPay < cap
    /\ IF orderId \notin DOMAIN orders
       THEN payreq' = [payreq EXCEPT ![r] = DonePay(orderId, 500, FALSE, "order not found", FALSE)]
       ELSE IF caller.role = "CLIENT" /\ orders[orderId].userId # caller.id
       THEN payreq' = [payreq EXCEPT ![r] = DonePay(orderId, 500, FALSE, "not your order", FALSE)]
       ELSE IF orders[orderId].paymentStatus = "PAID"
       THEN payreq' = [payreq EXCEPT ![r] = DonePay(orderId, 500, FALSE, "already paid", FALSE)]
       ELSE payreq' = [payreq EXCEPT ![r] = [pc |-> "existing", orderId |-> orderId,
                                             transactionId |-> 0]]
    /\ UNCHANGED <<payments, gatewayCalls, orderVars, loyaltyVars, promoVars,
                 restVars>>

\* db.payments.find_unique by orderId and, when there is no row, the
\* blocking call of the gateway that follows without an await; the body of
\* the answer is parsed whatever its status code
InitiateCheckExisting(r, answer) ==
    /\ payreq[r].pc = "existing"
    /\ LET q == payreq[r]
       IN  IF PaymentExists(q.orderId)
           THEN /\ payreq' = [payreq EXCEPT ![r] =
                                DonePay(q.orderId, 200, FALSE, "PAYMENT_EXISTS", FALSE)]
                /\ UNCHANGED gatewayCalls
           ELSE /\ gatewayCalls' = gatewayCalls + 1
                /\ payreq' = [payreq EXCEPT ![r] =
                      CASE answer \in {"form", "refused"} ->
                               [q EXCEPT !.pc = "create", !.transactionId = gatewayCalls + 1]
                        [] answer = "malformed" ->
                               DonePay(q.orderId, 500, FALSE, "gateway response", TRUE)
                        [] OTHER ->
                               DonePay(q.orderId, 502, FALSE, "gateway connection", TRUE)]
    /\ UNCHANGED <<payments, orderVars, loyaltyVars, promoVars,
                 restVars>>

\* db.payments.create; orderId is unique in the Payment table
InitiateCreate(r) ==
    /\ payreq[r].pc = "create"
    /\ LET q == payreq[r]
       IN  IF PaymentExists(q.orderId)
           THEN /\ payreq' = [payreq EXCEPT ![r] =
                                DonePay(q.orderId, 500, FALSE, "unique orderId", TRUE)]
                /\ UNCHANGED payments
           ELSE /\ payments' = payments \cup
                                  {[orderId |-> q.orderId, paymentId |-> q.transactionId]}
                /\ payreq' = [payreq EXCEPT ![r] = DonePay(q.orderId, 200, TRUE, "", TRUE)]
    /\ UNCHANGED <<gatewayCalls, orderVars, loyaltyVars, promoVars,
                 restVars>>

\* The response is sent; the slot serves the next request.
RespondPay(r) ==
    /\ payreq[r].pc = "done"
    /\ payreq' = [payreq EXCEPT ![r] = IdlePay]
    /\ UNCHANGED <<payments, gatewayCalls, orderVars, loyaltyVars, promoVars,
                 restVars>>

\* no payment row, no gateway call, no initiate request
NoPayments ==
    /\ payments = {}
    /\ gatewayCalls = 0
    /\ payreq = [r \in PayReqs |-> IdlePay]

\* ------------------------------------------------------ one-time codes
MaxOtps == 2            \* OtpCode rows created

\* the code verify_otp accepts in development without looking at the table
HardcodedOtp == 123456

\* minutes an OTP is valid, in ticks of the clock
OtpLifetime == 1

\* two verify requests may be in flight at once
VReqs == {1, 2}

IdleOtp == [pc |-> "idle"]

\* generate_otp_code draws six random digits; the codes of this model are
\* distinct from each other and from the hardcoded one
GeneratedCode(id) == id

\* codes a caller may submit: one that was generated, or the hardcoded one
SubmittedCodes == 1..MaxOtps \cup {HardcodedOtp}

\* ids of the rows verify_otp's find_first matches
MatchingOtps(userId, code, purpose) ==
    {i \in DOMAIN otpcodes :
        /\ otpcodes[i].userId = userId
        /\ otpcodes[i].code = code
        /\ otpcodes[i].purpose = purpose
        /\ ~otpcodes[i].isUsed
        /\ otpcodes[i].expiresAt > now}

\* verify_otp accepts the hardcoded code before it looks at the table
AcceptsHardcoded(code) == environment = "development" /\ code = HardcodedOtp

\* a finished verify request: what the response and the access log show;
\* otpId is the row the code matched, 0 when no row was looked up
DoneOtp(q, status, detail) ==
    [pc |-> "done", kind |-> q.kind, role |-> q.role, userId |-> q.userId,
     orderId |-> q.orderId, code |-> q.code, otpId |-> q.otpId,
     status |-> status, detail |-> detail]

\* purpose verify_otp is called with by verify_payment_otp (kind "payment"),
\* verify_otp_and_login (kind "login") and verify_staff_otp (kind "staff")
OtpPurpose(kind) == IF kind = "payment" THEN "PAYMENT_CONFIRMATION" ELSE "STAFF_AUTH"

\* what the caller of verify_otp does once the code is accepted: the order
\* is marked paid, the tokens are created and returned, or the access token
\* is created and create_refresh_token is called with the user id
AfterAccepted(kind) ==
    IF kind = "payment" THEN "pay" ELSE IF kind = "login" THEN "token" ELSE "refresh"

\* send_payment_otp up to the first write of send_otp: the order lookup, the
\* ownership check of a CLIENT, the paid check, and the SMS to the owner of
\* the order (the caller when the order has none)
SendPaymentOtp(orderId, caller) ==
    /\ sreq.pc = "idle"
    /\ Len(otpcodes) < MaxOtps
    /\ orderId \in DOMAIN orders
    /\ ~(caller.role = "CLIENT" /\ orders[orderId].userId # caller.id)
    /\ orders[orderId].paymentStatus # "PAID"
    /\ sreq' = [pc |-> "invalidate",
                userId |-> IF orders[orderId].userId # NoUser THEN orders[orderId].userId
                           ELSE caller.id,
                purpose |-> "PAYMENT_CONFIRMATION"]
    /\ UNCHANGED <<environment, otpcodes, vreq, addresses, publicStatus, confirmation,
                 moreVars, orderVars, loyaltyVars, promoVars, payVars>>

\* send_otp: db.otpcode.update_many marks the unused codes of the user and
\* purpose as used
SendInvalidate ==
    /\ sreq.pc = "invalidate"
    /\ otpcodes' = [i \in DOMAIN otpcodes |->
                       IF otpcodes[i].userId = sreq.userId
                          /\ otpcodes[i].purpose = sreq.purpose
                       THEN [otpcodes[i] EXCEPT !.isUsed = TRUE]
                       ELSE otpcodes[i]]
    /\ sreq' = [sreq EXCEPT !.pc = "create"]
    /\ UNCHANGED <<environment, vreq, addresses, publicStatus, confirmation, moreVars,
                 orderVars, loyaltyVars, promoVars, payVars>>

\* send_otp: db.otpcode.create of the new code; `accepts` is no column of
\* the table: it counts the times verify_otp returned True on the row
SendCreate ==
    /\ sreq.pc = "create"
    /\ otpcodes' = Append(otpcodes,
           [userId |-> sreq.userId, code |-> GeneratedCode(Len(otpcodes) + 1),
            purpose |-> sreq.purpose, isUsed |-> FALSE,
            expiresAt |-> now + OtpLifetime, accepts |-> 0])
    /\ sreq' = IdleOtp
    /\ UNCHANGED <<environment, vreq, addresses, publicStatus, confirmation, moreVars,
                 orderVars, loyaltyVars, promoVars, payVars>>

\* verify_payment_otp up to the first query of verify_otp: the order lookup,
\* the ownership check of a CLIENT, and the hardcoded code
VerifyPaymentStart(r, orderId, code, caller) ==
    /\ vreq[r].pc = "idle"
    /\ LET q == [kind |-> "payment", role |-> caller.role,
                 userId |-> IF orderId \in DOMAIN orders /\ orders[orderId].userId # NoUser
                            THEN orders[orderId].userId ELSE caller.id,
                 orderId |-> orderId, code |-> code, otpId |-> 0]
       IN  IF orderId \notin DOMAIN orders
           THEN vreq' = [vreq EXCEPT ![r] = DoneOtp(q, 404, "Order not found")]
           ELSE IF caller.role = "CLIENT" /\ orders[orderId].userId # caller.id
           THEN vreq' = [vreq EXCEPT ![r] = DoneOtp(q, 403, "not your order")]
           ELSE IF AcceptsHardcoded(code)
           THEN vreq' = [vreq EXCEPT ![r] = q @@ [pc |-> AfterAccepted("payment")]]
           ELSE vreq' = [vreq EXCEPT ![r] = q @@ [pc |-> "find"]]
    /\ UNCHANGED <<environment, otpcodes, sreq, addresses, publicStatus, confirmation,
                 moreVars, orderVars, loyaltyVars, promoVars, payVars>>

\* verify_otp: db.otpcode.find_first of an unused, unexpired row of the
\* user, code and purpose
VerifyFind(r) ==
    /\ vreq[r].pc = "find"
    /\ LET q == vreq[r]
           found == MatchingOtps(q.userId, q.code, OtpPurpose(q.kind))
       IN  IF found = {}
           THEN vreq' = [vreq EXCEPT ![r] = DoneOtp(q, 400, "Invalid or expired OTP code")]
           ELSE \E i \in found :
                    vreq' = [vreq EXCEPT ![r] = [q EXCEPT !.pc = "mark", !.otpId = i]]
    /\ UNCHANGED <<environment, otpcodes, sreq, addresses, publicStatus, confirmation,
                 moreVars, orderVars, loyaltyVars, promoVars, payVars>>

\* verify_otp: db.otpcode.update marks the row found as used, and the code
\* is accepted
VerifyMark(r) ==
    /\ vreq[r].pc = "mark"
    /\ otpcodes' = [otpcodes EXCEPT ![vreq[r].otpId].isUsed = TRUE,
                                    ![vreq[r].otpId].accepts = @ + 1]
    /\ vreq' = [vreq EXCEPT ![r].pc = AfterAccepted(vreq[r].kind)]
    /\ UNCHANGED <<environment, sreq, addresses, publicStatus, confirmation, moreVars,
                 orderVars, loyaltyVars, promoVars, payVars>>

\* verify_payment_otp: db.order.update of paymentStatus after the code was
\* accepted
VerifyPay(r) ==
    /\ vreq[r].pc = "pay"
    /\ orders' = [orders EXCEPT ![vreq[r].orderId].paymentStatus = "PAID"]
    /\ vreq' = [vreq EXCEPT ![r] = DoneOtp(vreq[r], 200, "Payment confirmed")]
    /\ UNCHANGED <<environment, otpcodes, sreq, addresses, publicStatus, confirmation,
                 moreVars, dish, orderItems, creq, created, loyaltyVars, promoVars, payVars>>

\* The response is sent; the slot serves the next request.
RespondOtp(r) ==
    /\ vreq[r].pc = "done"
    /\ vreq' = [vreq EXCEPT ![r] = IdleOtp]
    /\ UNCHANGED <<environment, otpcodes, sreq, addresses, publicStatus, confirmation,
                 moreVars, orderVars, loyaltyVars, promoVars, payVars>>

\* ------------------------------------------------------------ reservations
MaxReservations == 2    \* Reservation rows created

\* hours a reservation may start or end at, all in the future
Hours == 1..3

RReqs == {1, 2}

IdleReservation == [pc |-> "idle"]

\* a waiter of restaurant 1, and the id guest users of phone bookings get
Host == [role |-> "WAITER", id |-> 4, restaurantId |-> 1]
GuestId == 5

\* bodies of ReservationCreate and PublicReservationCreate: the end is after
\* the start
ReservationBodies ==
    {b \in [restaurantId : Restaurants, tableId : Tables \cup {NoTable},
            reservationStart : Hours, reservationEnd : Hours] :
        b.reservationEnd > b.reservationStart}

\* bodies of ReservationUpdate: when both times are given the end is after
\* the start
ReservationUpdates ==
    {b \in [tableId : Tables \cup {Unset}, reservationStart : Hours \cup {Unset},
            reservationEnd : Hours \cup {Unset}] :
        (b.reservationStart # Unset /\ b.reservationEnd # Unset)
            => b.reservationEnd > b.reservationStart}

\* the where clause of check_availability's find_many
Conflicting(row, restaurantId, reservationStart, reservationEnd) ==
    /\ row.restaurantId = restaurantId
    /\ row.status \in {"PENDING", "CONFIRMED"}
    /\ \/ row.reservationStart <= reservationStart /\ row.reservationEnd > reservationStart
       \/ row.reservationStart < reservationEnd /\ row.reservationEnd >= reservationEnd
       \/ row.reservationStart >= reservationStart /\ row.reservationEnd <= reservationEnd

\* tables check_availability answers: the active tables of the restaurant
\* that no conflicting reservation holds
AvailableTables(restaurantId, reservationStart, reservationEnd) ==
    {t \in Tables :
        /\ TableRestaurant(t) = restaurantId
        /\ TableIsActive(t)
        /\ ~\E i \in DOMAIN reservations :
              /\ Conflicting(reservations[i], restaurantId, reservationStart, reservationEnd)
              /\ reservations[i].tableId = t}

DoneReservation(q, status, detail) ==
    [pc |-> "done", kind |-> q.kind, status |-> status, detail |-> detail]

\* create_reservation (kind "auth") and create_public_reservation (kind
\* "public") up to the availability check: the role and restaurant of the
\* staff member who books for a guest, the restaurant and the table.  A body
\* without a table skips the availability check.
ReserveStart(r, kind, body, caller) ==
    /\ rreq[r].pc = "idle"
    /\ Len(reservations) + Cardinality({s \in RReqs : rreq[s].pc # "idle"})
           < MaxReservations
    /\ LET q == [kind |-> kind, body |-> body,
                 userId |-> IF kind = "public" THEN GuestId ELSE caller.id]
       IN  IF kind = "public" /\ caller.role \notin {"ADMIN", "MANAGER", "WAITER"}
           THEN rreq' = [rreq EXCEPT ![r] = DoneReservation(q, 403, "staff only")]
           ELSE IF kind = "public" /\ caller.role # "ADMIN"
                   /\ caller.restaurantId # body.restaurantId
           THEN rreq' = [rreq EXCEPT ![r] = DoneReservation(q, 403, "own restaurant")]
           ELSE IF ~RestaurantIsActive(body.restaurantId)
           THEN rreq' = [rreq EXCEPT ![r] = DoneReservation(q, 404, "restaurant")]
           ELSE IF body.tableId = NoTable
           THEN rreq' = [rreq EXCEPT ![r] = q @@ [pc |-> "create"]]
           ELSE IF TableRestaurant(body.tableId) # body.restaurantId
                   \/ ~TableIsActive(body.tableId)
           THEN rreq' = [rreq EXCEPT ![r] = DoneReservation(q, 404, "table")]
           ELSE rreq' = [rreq EXCEPT ![r] = q @@ [pc |-> "check"]]
    /\ UNCHANGED <<reservations, addresses, publicStatus, confirmation, otpVars,
                 authVars, orderVars, loyaltyVars, promoVars, payVars>>

\* check_availability called by the creation handlers: the query of the
\* conflicting reservations
ReserveCheck(r) ==
    /\ rreq[r].pc = "check"
    /\ LET q == rreq[r]
           b == q.body
       IN  IF b.tableId \notin
                 AvailableTables(b.restaurantId, b.reservationStart, b.reservationEnd)
           THEN rreq' = [rreq EXCEPT ![r] = DoneReservation(q, 400, "table not available")]
           ELSE rreq' = [rreq EXCEPT ![r] = [q EXCEPT !.pc = "create"]]
    /\ UNCHANGED <<reservations, addresses, publicStatus, confirmation, otpVars,
                 authVars, orderVars, loyaltyVars, promoVars, payVars>>

\* db.reservation.create
ReserveCreate(r) ==
    /\ rreq[r].pc = "create"
    /\ LET q == rreq[r]
           b == q.body
       IN  /\ reservations' = Append(reservations,
                  [userId |-> q.userId, restaurantId |-> b.restaurantId,
                   tableId |-> b.tableId, reservationStart |-> b.reservationStart,
                   reservationEnd |-> b.reservationEnd, status |-> "PENDING"])
           /\ rreq' = [rreq EXCEPT ![r] = DoneReservation(q, 200, "ok")]
    /\ UNCHANGED <<addresses, publicStatus, confirmation, otpVars,
                 authVars, orderVars, loyaltyVars, promoVars, payVars>>

\* The response is sent; the slot serves the next request.
RespondReservation(r) ==
    /\ rreq[r].pc = "done"
    /\ rreq' = [rreq EXCEPT ![r] = IdleReservation]
    /\ UNCHANGED <<reservations, addresses, publicStatus, confirmation, otpVars,
                 authVars, orderVars, loyaltyVars, promoVars, payVars>>

\* update_reservation answers 200: the reservation exists; a client owns it
\* and it is PENDING, a staff member is of its restaurant or an admin; a new
\* table is an active table of the restaurant.  The fields the body gives
\* are written.
UpdateReservation(id, update, caller) ==
    /\ id \in DOMAIN reservations
    /\ LET row == reservations[id]
       IN  /\ IF caller.role \notin {"ADMIN", "MANAGER", "WAITER"}
              THEN row.userId = caller.id /\ row.status = "PENDING"
              ELSE caller.role = "ADMIN" \/ caller.restaurantId = row.restaurantId
           /\ update.tableId # Unset =>
                 /\ TableRestaurant(update.tableId) = row.restaurantId
                 /\ TableIsActive(update.tableId)
           /\ reservations' = [reservations EXCEPT ![id] =
                 [row EXCEPT
                    !.tableId = IF update.tableId # Unset THEN update.tableId ELSE @,
                    !.reservationStart = IF update.reservationStart # Unset
                                         THEN update.reservationStart ELSE @,
                    !.reservationEnd = IF update.reservationEnd # Unset
                                       THEN update.reservationEnd ELSE @]]
    /\ UNCHANGED <<rreq, addresses, publicStatus, confirmation, otpVars,
                 authVars, orderVars, loyaltyVars, promoVars, payVars>>

\* update_reservation_status answers 200: the reservation exists and the
\* staff member is of its restaurant or an admin
UpdateReservationStatus(id, newStatus, caller) ==
    /\ id \in DOMAIN reservations
    /\ newStatus \in {"PENDING", "CONFIRMED", "CANCELLED", "COMPLETED", "NO_SHOW"}
    /\ caller.role \in StaffRoles
    /\ caller.role = "ADMIN" \/ caller.restaurantId = reservations[id].restaurantId
    /\ reservations' = [reservations EXCEPT ![id].status = newStatus]
    /\ UNCHANGED <<rreq, addresses, publicStatus, confirmation, otpVars,
                 authVars, orderVars, loyaltyVars, promoVars, payVars>>

\* ------------------------------------------------------------------ logins
\* the accounts: phone and password are those of the user id; all are active
Accounts == {Owner, Stranger, Cashier, Host}

\* db.user.find_unique by phone
AccountOf(phone) == CHOOSE a \in Accounts : a.id = phone

\* a phone no account has, and a password no account has
UnknownPhone == 9
WrongPassword == 0

\* verify_password of the submitted password against the account's
VerifyPassword(password, account) == password = account.id

\* POST /auth/login: the account is looked up, the password verified; staff
\* are sent to the 2FA login, customers get their tokens
Login(phone, password) ==
    /\ IF phone \notin {a.id : a \in Accounts}
          \/ ~VerifyPassword(password, AccountOf(phone))
       THEN /\ authAnswer' = [endpoint |-> "login", userId |-> 0, status |-> 401]
            /\ UNCHANGED tokens
       ELSE IF AccountOf(phone).role \in StaffRoles
       THEN /\ authAnswer' = [endpoint |-> "login", userId |-> phone, status |-> 400]
            /\ UNCHANGED tokens
       ELSE /\ authAnswer' = [endpoint |-> "login", userId |-> phone, status |-> 200]
            /\ tokens' = tokens \cup {[userId |-> phone, otpId |-> 0]}
    /\ UNCHANGED <<temps, slogin, resVars, otpVars, addresses, publicStatus, confirmation,
                 orderVars, loyaltyVars, promoVars, payVars>>

\* POST /auth/staff-login up to the first write of send_otp: the password
\* and the staff role are checked, and the code is sent
StaffLogin(phone, password) ==
    /\ slogin.pc = "idle"
    /\ sreq.pc = "idle"
    /\ Len(otpcodes) < MaxOtps
    /\ IF phone \notin {a.id : a \in Accounts}
          \/ ~VerifyPassword(password, AccountOf(phone))
       THEN /\ authAnswer' = [endpoint |-> "staff-login", userId |-> 0, status |-> 401]
            /\ UNCHANGED <<slogin, sreq>>
       ELSE IF AccountOf(phone).role \notin StaffRoles
       THEN /\ authAnswer' = [endpoint |-> "staff-login", userId |-> phone, status |-> 403]
            /\ UNCHANGED <<slogin, sreq>>
       ELSE /\ sreq' = [pc |-> "invalidate", userId |-> phone, purpose |-> "STAFF_AUTH"]
            /\ slogin' = [pc |-> "otp", userId |-> phone]
            /\ UNCHANGED authAnswer
    /\ UNCHANGED <<temps, tokens, resVars, environment, otpcodes, vreq, addresses,
                 publicStatus, confirmation, orderVars, loyaltyVars, promoVars, payVars>>

\* staff_login after send_otp has returned: create_temp_token
StaffLoginToken ==
    /\ slogin.pc = "otp"
    /\ sreq.pc = "idle"
    /\ temps' = temps \cup {slogin.userId}
    /\ authAnswer' = [endpoint |-> "staff-login", userId |-> slogin.userId, status |-> 200]
    /\ slogin' = IdleOtp
    /\ UNCHANGED <<tokens, resVars, otpVars, addresses, publicStatus, confirmation,
                 orderVars, loyaltyVars, promoVars, payVars>>

\* POST /otp/staff/send up to the first write of send_otp: the account of
\* the phone is a staff account
SendStaffOtp(phone) ==
    /\ sreq.pc = "idle"
    /\ Len(otpcodes) < MaxOtps
    /\ phone \in {a.id : a \in Accounts}
    /\ AccountOf(phone).role \in StaffRoles
    /\ sreq' = [pc |-> "invalidate", userId |-> phone, purpose |-> "STAFF_AUTH"]
    /\ UNCHANGED <<environment, otpcodes, vreq, moreVars, addresses, publicStatus,
                 confirmation, orderVars, loyaltyVars, promoVars, payVars>>

\* POST /auth/verify-otp up to the first query of verify_otp: the temporary
\* token is one that staff_login issued for the user
VerifyLoginStart(r, userId, code) ==
    /\ vreq[r].pc = "idle"
    /\ LET q == [kind |-> "login", role |-> "", userId |-> userId, orderId |-> 0,
                 code |-> code, otpId |-> 0]
       IN  IF userId \notin temps
           THEN vreq' = [vreq EXCEPT ![r] = DoneOtp(q, 401, "Invalid temporary token")]
           ELSE IF AcceptsHardcoded(code)
           THEN vreq' = [vreq EXCEPT ![r] = q @@ [pc |-> AfterAccepted("login")]]
           ELSE vreq' = [vreq EXCEPT ![r] = q @@ [pc |-> "find"]]
    /\ UNCHANGED <<environment, otpcodes, sreq, moreVars, addresses, publicStatus,
                 confirmation, orderVars, loyaltyVars, promoVars, payVars>>

\* POST /otp/staff/verify up to the first query of verify_otp: the account
\* of the phone is looked up
VerifyStaffStart(r, phone, code) ==
    /\ vreq[r].pc = "idle"
    /\ LET q == [kind |-> "staff", role |-> "", userId |-> phone, orderId |-> 0,
                 code |-> code, otpId |-> 0]
       IN  IF phone \notin {a.id : a \in Accounts}
           THEN vreq' = [vreq EXCEPT ![r] = DoneOtp(q, 404, "User not found")]
           ELSE IF AcceptsHardcoded(code)
           THEN vreq' = [vreq EXCEPT ![r] = q @@ [pc |-> AfterAccepted("staff")]]
           ELSE vreq' = [vreq EXCEPT ![r] = q @@ [pc |-> "find"]]
    /\ UNCHANGED <<environment, otpcodes, sreq, moreVars, addresses, publicStatus,
                 confirmation, orderVars, loyaltyVars, promoVars, payVars>>

\* verify_otp_and_login after the code was accepted: the access and refresh
\* tokens are created and returned
IssueTokens(r) ==
    /\ vreq[r].pc = "token"
    /\ tokens' = tokens \cup {[userId |-> vreq[r].userId, otpId |-> vreq[r].otpId]}
    /\ vreq' = [vreq EXCEPT ![r] = DoneOtp(vreq[r], 200, "ok")]
    /\ UNCHANGED <<temps, slogin, authAnswer, resVars, environment, otpcodes, sreq,
                 addresses, publicStatus, confirmation, orderVars, loyaltyVars,
                 promoVars, payVars>>

\* create_refresh_token(data): data.copy() raises on everything that is not
\* a dict
RefreshTokenRaises(dataIsDict) == ~dataIsDict

\* verify_staff_otp after the code was accepted: create_refresh_token is
\* called with user.id, an int; the exception is answered with 500 and no
\* token is returned
StaffRefreshToken(r) ==
    /\ vreq[r].pc = "refresh"
    /\ IF RefreshTokenRaises(FALSE)
       THEN /\ vreq' = [vreq EXCEPT ![r] = DoneOtp(vreq[r], 500, "Error verifying OTP")]
            /\ UNCHANGED tokens
       ELSE /\ vreq' = [vreq EXCEPT ![r] = DoneOtp(vreq[r], 200, "ok")]
            /\ tokens' = tokens \cup {[userId |-> vreq[r].userId, otpId |-> vreq[r].otpId]}
    /\ UNCHANGED <<temps, slogin, authAnswer, resVars, environment, otpcodes, sreq,
                 addresses, publicStatus, confirmation, orderVars, loyaltyVars,
                 promoVars, payVars>>


\* no reservation and no reservation request
NoReservations ==
    /\ reservations = <<>>
    /\ rreq = [r \in RReqs |-> IdleReservation]

\* no login yet
NoLogins ==
    /\ temps = {}
    /\ tokens = {}
    /\ slogin = IdleOtp
    /\ authAnswer = [endpoint |-> "", userId |-> 0, status |-> 0]

NoMore == NoReservations /\ NoLogins


\* no code was sent and no verify request is served
NoOtps ==
    /\ otpcodes = <<>>
    /\ sreq = IdleOtp
    /\ vreq = [r \in VReqs |-> IdleOtp]

\* no Address row, no public status request and no callback yet
NoAnswers ==
    /\ addresses = 0
    /\ confirmation = [number |-> 0, status |-> 0, paymentStatus |-> ""]
    /\ publicStatus = [number |-> 0, status |-> 0, detail |-> "", order |-> <<>>, items |-> {}]

\* the same, and no one-time code, in the environment the settings default to
NoRest ==
    /\ NoAnswers
    /\ environment = "development"
    /\ NoOtps
    /\ NoMore

\* ---------------------------------------------------------- initial states
\* nothing has happened yet
InitOrder == NoOrders /\ NoLoyalty /\ NoPromotions /\ NoPayments /\ NoRest

\* an order row as create_order / create_public_order write it for one unit
\* of dish 1 at table 1
PlacedOrder(userId, status, paymentStatus) ==
    [userId |-> userId, restaurantId |-> 1, tableId |-> 1, type |-> "DINE_IN",
     status |-> status, subtotal |-> InitPrice, deliveryFee |-> 0, discount |-> 0,
     totalAmount |-> InitPrice, paymentStatus |-> paymentStatus]

\* the catalogue after two orders have been placed and served: order 1 by
\* user 1, unpaid; order 2 by a guest, paid
OrdersPlaced ==
    /\ dish = [d \in Dishes |-> [price |-> InitPrice, quantity |-> 0, isAvailable |-> TRUE]]
    /\ orders = <<PlacedOrder(1, "COMPLETED", "PENDING"),
                  PlacedOrder(NoUser, "COMPLETED", "PAID")>>
    /\ orderItems = {[orderId |-> o, line |-> 1, dishId |-> 1, quantity |-> 1,
                      unitPrice |-> InitPrice, totalPrice |-> InitPrice] : o \in {1, 2}}
    /\ creq = [r \in Reqs |-> IdleReq]
    /\ created = {1, 2}

InitLoyalty == OrdersPlaced /\ NoLoyalty /\ NoPromotions /\ NoPayments /\ NoRest

InitPromo == NoOrders /\ NoLoyalty /\ NoPromotions /\ NoPayments /\ NoRest

InitPayment == OrdersPlaced /\ NoLoyalty /\ NoPromotions /\ NoPayments /\ NoRest

\* ------------------------------------------------- order specifications
Shape(kind, type, tableId, restaurantId, hasAddress) ==
    [kind |-> kind, type |-> type, tableId |-> tableId,
     restaurantId |-> restaurantId, hasAddress |-> hasAddress]

\* dine-in requests at table 1, with and without a login
StockShapes ==
    {Shape("public", "DINE_IN", 1, 1, FALSE), Shape("auth", "DINE_IN", 1, 1, FALSE)}

\* every order type on both endpoints, with and without a table, at an
\* inactive restaurant or table, with and without a delivery address
AllShapes ==
    {Shape("public", t, 1, 1, TRUE) : t \in OrderTypes}
    \cup {Shape("public", t, NoTable, 1, TRUE) : t \in OrderTypes}
    \cup {Shape("auth", "DINE_IN", 1, 1, TRUE), Shape("auth", "TAKEAWAY", NoTable, 1, TRUE),
          Shape("auth", "DELIVERY", NoTable, 1, TRUE),
          Shape("public", "DINE_IN", 2, 1, TRUE), Shape("auth", "DINE_IN", 1, 2, TRUE),
          Shape("auth", "DELIVERY", NoTable, 1, FALSE)}

DoValidateItem == \E r \in Reqs : ValidateItem(r)
DoInsertOrder == \E r \in Reqs : InsertOrder(r)
DoInsertItem == \E r \in Reqs : InsertItem(r)
DoUpdateStock == \E r \in Reqs : UpdateStock(r)
DoRespond == \E r \in Reqs : Respond(r)

HandlerSteps ==
    DoValidateItem \/ DoInsertOrder \/ DoInsertItem \/ DoUpdateStock \/ DoRespond

\* concurrent order creation only
StartRace == \E r \in Reqs : CreateStart(r, MaxOrders, StockShapes, ItemLists(ItemLines, MaxItems))

NextCreate == StartRace \/ HandlerSteps

SpecCreate == InitOrder /\ [][NextCreate]_vars

\* concurrent order creation interleaved with staff stock updates
StaffUpdateDishQuantity ==
    \E d \in Dishes, q \in 0..MaxStock, a \in {WaiterR1, WaiterR2} :
        UpdateDishQuantity(d, q, a)

StaffUpdateDish ==
    \E d \in Dishes, data \in DishUpdateData({}), a \in {ManagerR1, WaiterR1} :
        UpdateDish(d, data, a)

\* requests of one line each
SingleLines == {<<line>> : line \in DishLines}

StartStock ==
    \E r \in Reqs :
        CreateStart(r, MaxOrders, {Shape("auth", "DINE_IN", 1, 1, FALSE)}, SingleLines)

NextStock == StartStock \/ HandlerSteps \/ StaffUpdateDishQuantity \/ StaffUpdateDish

SpecStock == InitOrder /\ [][NextStock]_vars

\* order creation of every shape, then the order's life: status updates,
\* gateway callbacks and staff payment overrides
StartAny == \E r \in {1} : CreateStart(r, MaxRows, AllShapes, ItemLists(ItemLines, MaxItems))

StaffUpdateOrderStatus ==
    \E o \in DOMAIN orders, s \in {"CONFIRMED", "COMPLETED"},
       a \in {Admin, WaiterR1, WaiterR2} :
        UpdateOrderStatus(o, s, a)

GatewayCallback == \E o \in DOMAIN orders : PaymentCallback(o)

StaffUpdatePaymentStatus ==
    \E o \in DOMAIN orders, s \in {"FAILED", "SETTLED"},
       a \in {Admin, WaiterR1, WaiterR2} :
        UpdatePaymentStatus(o, s, a)

NextOrder ==
    StartAny \/ HandlerSteps \/ StaffUpdateOrderStatus \/ GatewayCallback
    \/ StaffUpdatePaymentStatus

SpecOrder == InitOrder /\ [][NextOrder]_vars

\* ----------------------------------------------- loyalty specifications
\* award requests name order 1, order 2 or an order that does not exist
StartAward ==
    \E r \in LReqs, o \in 1..3, amount \in OrderAmounts, a \in {WaiterR1, WaiterR2} :
        AwardStart(r, MaxTx, o, 1, amount, a)

StartRedeem ==
    \E r \in LReqs, u \in Users, rest \in Restaurants, p \in RedeemPoints :
        RedeemStart(r, MaxTx, u, rest, p)

StartManual ==
    \E r \in LReqs, data \in ManualBodies, a \in {ManagerR1, WaiterR1} :
        ManualStart(r, MaxTx, data, a)

DoAwardCheckDuplicate == \E r \in LReqs : AwardCheckDuplicate(r)
DoAwardFindCard == \E r \in LReqs : AwardFindCard(r)
DoAwardCreateCard == \E r \in LReqs : AwardCreateCard(r)
DoRedeemFindRestaurant == \E r \in LReqs : RedeemFindRestaurant(r)
DoInsertTransaction == \E r \in LReqs : InsertTransaction(r)
DoUpdateCard == \E r \in LReqs, ok \in BOOLEAN : UpdateCard(r, ok)
DoRespondLoyalty == \E r \in LReqs : RespondLoyalty(r)

\* concurrent award, redeem and manual requests; the balance write may fail
NextLoyalty ==
    StartAward \/ StartRedeem \/ StartManual \/ DoAwardCheckDuplicate
    \/ DoAwardFindCard \/ DoAwardCreateCard \/ DoRedeemFindRestaurant
    \/ DoInsertTransaction \/ DoUpdateCard \/ DoRespondLoyalty

SpecLoyalty == InitLoyalty /\ [][NextLoyalty]_vars

AloneAward ==
    \E o \in 1..3, amount \in OrderAmounts, a \in {WaiterR1, WaiterR2} :
        AwardStart(1, MaxTx, o, 1, amount, a)

AloneRedeem ==
    \E u \in Users, rest \in Restaurants, p \in RedeemPoints :
        RedeemStart(1, MaxTx, u, rest, p)

AloneManual ==
    \E data \in ManualBodies, a \in {ManagerR1, WaiterR1} : ManualStart(1, MaxTx, data, a)

DoReliableUpdateCard == \E r \in LReqs : UpdateCard(r, TRUE)

\* one loyalty request at a time, on a store whose writes succeed
NextLoyaltyAlone ==
    AloneAward \/ AloneRedeem \/ AloneManual \/ DoAwardCheckDuplicate
    \/ DoAwardFindCard \/ DoAwardCreateCard \/ DoRedeemFindRestaurant
    \/ DoInsertTransaction \/ DoReliableUpdateCard \/ DoRespondLoyalty

SpecLoyaltyAlone == InitLoyalty /\ [][NextLoyaltyAlone]_vars

\* --------------------------------------------- promotion specifications
StaffCreatePromotion ==
    \E data \in PromotionBodies, a \in {Admin, ManagerR1} : CreatePromotion(data, a)

StaffUpdatePromotion ==
    \E data \in PromotionUpdates, a \in {Admin, WaiterR1} : UpdatePromotion(data, a)

StartIncrement == \E r \in PReqs, a \in {WaiterR1, WaiterR2} : IncrementRead(r, a)
DoIncrementWrite == \E r \in PReqs : IncrementWrite(r)
DoRespondPromo == \E r \in PReqs : RespondPromo(r)

\* concurrent usage increments interleaved with promotion updates
NextPromo ==
    StaffCreatePromotion \/ StaffUpdatePromotion \/ StartIncrement \/ DoIncrementWrite
    \/ DoRespondPromo

SpecPromo == InitPromo /\ [][NextPromo]_vars

AloneIncrement == \E a \in {WaiterR1, WaiterR2} : IncrementRead(1, a)

Quote == \E orderAmount \in QuotedAmounts : Calculate(orderAmount)

\* quotes of a promotion that is created, updated and used while days pass
NextQuote ==
    StaffCreatePromotion \/ StaffUpdatePromotion \/ AloneIncrement \/ DoIncrementWrite
    \/ DoRespondPromo \/ Tick \/ Quote

SpecQuote == InitPromo /\ [][NextQuote]_vars

\* ----------------------------------------------- payment specification
StartInitiate ==
    \E r \in PayReqs, o \in 1..3, c \in {Owner, Stranger, Cashier} :
        InitiateStart(r, MaxGatewayCalls, o, c)

DoInitiateCheckExisting ==
    \E r \in PayReqs, answer \in GatewayAnswers : InitiateCheckExisting(r, answer)

DoInitiateCreate == \E r \in PayReqs : InitiateCreate(r)
DoRespondPay == \E r \in PayReqs : RespondPay(r)

\* concurrent initiate requests
NextPayment ==
    StartInitiate \/ DoInitiateCheckExisting \/ DoInitiateCreate \/ DoRespondPay

SpecPayment == InitPayment /\ [][NextPayment]_vars

\* order creation on a store whose writes may fail
StartFailure ==
    \E r \in Reqs : CreateStart(r, MaxOrders, StockShapes, ItemLists(DishLines, MaxItems))

DoInsertOrderFails == \E r \in Reqs : InsertOrderFails(r)
DoInsertItemFails == \E r \in Reqs : InsertItemFails(r)
DoUpdateStockFails == \E r \in Reqs : UpdateStockFails(r)

NextFailure ==
    StartFailure \/ HandlerSteps \/ DoInsertOrderFails \/ DoInsertItemFails
    \/ DoUpdateStockFails

SpecFailure == InitOrder /\ [][NextFailure]_vars


\* orders of every shape on the three creation endpoints
StartOrder ==
    \E r \in Reqs : CreateStart(r, MaxRows, AllShapes, ItemLists(ItemLines, MaxLines))

StartDelivery ==
    \E r \in Reqs, restaurantId \in Restaurants, items \in ItemLists(ItemLines, MaxLines),
       useStoredAddress \in BOOLEAN :
        /\ addresses < MaxAddresses
        /\ DeliveryStart(r, MaxRows, restaurantId, items, useStoredAddress)

NextDelivery == StartOrder \/ StartDelivery \/ HandlerSteps

SpecDelivery == InitOrder /\ [][NextDelivery]_vars


\* ------------------------------------------------- order-life specification
\* user 1 holds the points awarded for order 1
PointsAwarded ==
    /\ cards = [u \in Users |->
                  [exists |-> TRUE, points |-> PointsEarned(10050), rows |-> 1]]
    /\ ltx = <<[loyaltyCardId |-> 1, restaurantId |-> 1, points |-> PointsEarned(10050),
                type |-> "EARNED", orderId |-> 1]>>
    /\ lreq = [r \in LReqs |-> IdleLoyalty]

\* the payment of order 2 was initiated at the gateway
PaymentInitiated ==
    /\ payments = {[orderId |-> 2, paymentId |-> 1]}
    /\ gatewayCalls = 1
    /\ payreq = [r \in PayReqs |-> IdlePay]

InitLife == OrdersPlaced /\ PointsAwarded /\ NoPromotions /\ PaymentInitiated /\ NoRest

\* order numbers of requests: the two orders and a number no order has
OrderNumbers == {1, 2, 3}

StaffSetOrderStatus ==
    \E o \in DOMAIN orders, s \in OrderStatuses, a \in {Admin, WaiterR1, WaiterR2} :
        UpdateOrderStatus(o, s, a)

AnyCallback == \E o \in OrderNumbers : PaymentCallback(o)

\* staff set every payment status but PAID, or a word that is none
StaffSetPaymentStatus ==
    \E o \in DOMAIN orders, s \in {"PENDING", "FAILED", "REFUNDED", "SETTLED"},
       a \in {Admin, WaiterR1, WaiterR2} :
        UpdatePaymentStatus(o, s, a)

\* the life of two placed orders: status updates, gateway callbacks and
\* staff payment overrides
NextLife == StaffSetOrderStatus \/ AnyCallback \/ StaffSetPaymentStatus

SpecLife == InitLife /\ [][NextLife]_vars


\* --------------------------------------------- public-status specification
PublicLookup == \E n \in OrderNumbers : GetPublicStatus(n)

\* public status lookups while staff move the two placed orders
NextPublicStatus == StaffSetOrderStatus \/ PublicLookup

SpecPublicStatus == InitLife /\ [][NextPublicStatus]_vars


\* ------------------------------------------------- award specification
\* staff move the orders while no loyalty request is being served
StaffSetStatusBetweenAwards ==
    /\ \A r \in LReqs : lreq[r].pc = "idle"
    /\ \E o \in DOMAIN orders, s \in {"READY", "COMPLETED", "CANCELLED"},
          a \in {Admin, WaiterR1} :
          UpdateOrderStatus(o, s, a)

\* order amounts of 0.50, 100.50 and 199.99
AwardAmounts == {50, 10050, 19999}

AwardAny ==
    \E o \in OrderNumbers, amount \in AwardAmounts, a \in {WaiterR1, WaiterR2} :
        AwardStart(1, MaxTx, o, 1, amount, a)

\* one award request at a time, on a store whose writes succeed
NextAward ==
    AwardAny \/ DoAwardCheckDuplicate \/ DoAwardFindCard \/ DoAwardCreateCard
    \/ DoInsertTransaction \/ DoReliableUpdateCard \/ DoRespondLoyalty
    \/ StaffSetStatusBetweenAwards

SpecAward == InitLoyalty /\ [][NextAward]_vars


\* ------------------------------------------ manual-transaction specification
\* bodies whose points have the wrong sign for their type
WrongSignBodies ==
    {[loyaltyCardId |-> 1, restaurantId |-> 1, points |-> 50, type |-> "REDEEMED",
      orderId |-> NoOrder],
     [loyaltyCardId |-> 1, restaurantId |-> 1, points |-> -50, type |-> "BONUS",
      orderId |-> NoOrder]}

ManualAny ==
    \E data \in ManualBodies \cup WrongSignBodies, a \in {ManagerR1, WaiterR1} :
        ManualStart(1, MaxTx, data, a)

\* one manual transaction at a time on the card that holds the points of
\* order 1, on a store whose writes succeed
NextManual == ManualAny \/ DoInsertTransaction \/ DoReliableUpdateCard \/ DoRespondLoyalty

InitManual == OrdersPlaced /\ PointsAwarded /\ NoPromotions /\ NoPayments /\ NoRest

SpecManual == InitManual /\ [][NextManual]_vars


\* ---------------------------------------------------- menu specification
StaffToggle ==
    \E d \in Dishes, a \in {WaiterR1, WaiterR2} : ToggleDishAvailability(d, a)

\* order creations interleaved with every staff update of a dish
NextMenu ==
    StartStock \/ HandlerSteps \/ StaffUpdateDishQuantity \/ StaffUpdateDish \/ StaffToggle

SpecMenu == InitOrder /\ [][NextMenu]_vars


\* ------------------------------------------- one-time code specification
\* the deployment runs with the default settings or in production
Environments == {"development", "production"}

InitOtp ==
    /\ OrdersPlaced /\ NoLoyalty /\ NoPromotions /\ NoPayments /\ NoAnswers
    /\ environment \in Environments
    /\ NoOtps
    /\ NoMore

\* order ids of requests: the two orders and an id no order has
OrderIds == {1, 2, 3}

\* callers of the payment OTP endpoints: the client who owns order 1,
\* another client, and a waiter
OtpCallers == {Owner, Stranger, Cashier}

PaymentOtpSend == \E o \in OrderIds, c \in OtpCallers : SendPaymentOtp(o, c)

PaymentOtpVerify ==
    \E r \in VReqs, o \in OrderIds, code \in SubmittedCodes, c \in OtpCallers :
        VerifyPaymentStart(r, o, code, c)

DoVerifyFind == \E r \in VReqs : VerifyFind(r)
DoVerifyMark == \E r \in VReqs : VerifyMark(r)
DoVerifyPay == \E r \in VReqs : VerifyPay(r)
DoRespondOtp == \E r \in VReqs : RespondOtp(r)

\* payment codes are sent and verified concurrently while time passes
NextOtp ==
    PaymentOtpSend \/ SendInvalidate \/ SendCreate \/ PaymentOtpVerify \/ DoVerifyFind
    \/ DoVerifyMark \/ DoVerifyPay \/ DoRespondOtp \/ Tick

SpecOtp == InitOtp /\ [][NextOtp]_vars

\* the client who owns order 1, and another client, ask for the code of an
\* order and submit a code, one request at a time
ClientOtpSend == \E o \in OrderIds, c \in {Owner, Stranger} : SendPaymentOtp(o, c)

ClientOtpVerify ==
    \E o \in OrderIds, code \in SubmittedCodes, c \in {Owner, Stranger} :
        VerifyPaymentStart(1, o, code, c)

\* requests of clients on the payment OTP endpoints, while staff and the
\* gateway act on the orders
NextOtpLife ==
    ClientOtpSend \/ SendInvalidate \/ SendCreate \/ ClientOtpVerify \/ DoVerifyFind
    \/ DoVerifyMark \/ DoVerifyPay \/ DoRespondOtp
    \/ StaffUpdateOrderStatus \/ GatewayCallback \/ StaffUpdatePaymentStatus

SpecOtpLife == InitOtp /\ [][NextOtpLife]_vars


\* --------------------------------------------------- price specification
\* prices a manager sets on a dish
NewPrices == {300, 400}

ManagerUpdatePrice ==
    \E d \in Dishes, data \in DishUpdateData(NewPrices), a \in {ManagerR1, WaiterR1} :
        /\ data.quantity = Unset /\ data.isAvailable = "unset"
        /\ UpdateDish(d, data, a)

StartPrice ==
    \E r \in {1} :
        CreateStart(r, MaxRows, StockShapes, ItemLists(DishLines, MaxItems))

\* status updates and payment events come after the creations
NoCreationInFlight == \A r \in Reqs : creq[r].pc = "idle"

WaiterCompletesLater ==
    /\ NoCreationInFlight
    /\ \E o \in DOMAIN orders : UpdateOrderStatus(o, "COMPLETED", WaiterR1)

CallbackLater == NoCreationInFlight /\ GatewayCallback

\* creations of up to MaxItems lines interleaved with price updates, then
\* status updates and payment events on the orders
NextPrice ==
    StartPrice \/ HandlerSteps \/ ManagerUpdatePrice \/ WaiterCompletesLater
    \/ CallbackLater

SpecPrice == InitOrder /\ [][NextPrice]_vars


\* ------------------------------------------------------ card specification
StartMyCard == \E r \in LReqs, u \in Users : MyCardFind(r, MaxTx, u)

DoMyCardCreate == \E r \in LReqs : MyCardCreate(r)

\* concurrent first and repeated reads of the card of a user, and awards
\* that create the card or add points to it
NextCard ==
    StartMyCard \/ DoMyCardCreate \/ StartAward \/ DoAwardCheckDuplicate
    \/ DoAwardFindCard \/ DoAwardCreateCard \/ DoInsertTransaction
    \/ DoReliableUpdateCard \/ DoRespondLoyalty

SpecCard == InitLoyalty /\ [][NextCard]_vars


\* --------------------------------------------------- balance specification
\* bodies that expire more points than an award of this model earns, or
\* half of them
ExpiryBodies ==
    {[loyaltyCardId |-> 1, restaurantId |-> 1, points |-> p, type |-> "EXPIRED",
      orderId |-> NoOrder] : p \in {-200, -50}}

ManualOrExpiry ==
    \E data \in ManualBodies \cup ExpiryBodies, a \in {ManagerR1, WaiterR1} :
        ManualStart(1, MaxTx, data, a)

\* one award, redeem or manual request at a time, on a store whose writes
\* succeed
NextBalance ==
    AloneAward \/ AloneRedeem \/ ManualOrExpiry \/ DoAwardCheckDuplicate
    \/ DoAwardFindCard \/ DoAwardCreateCard \/ DoRedeemFindRestaurant
    \/ DoInsertTransaction \/ DoReliableUpdateCard \/ DoRespondLoyalty

SpecBalance == InitLoyalty /\ [][NextBalance]_vars


\* order creation run alone: a request starts only when no other request is
\* in a handler or waits for its response to be sent
StartAlone ==
    \E r \in Reqs :
        /\ \A s \in Reqs : creq[s].pc = "idle"
        /\ CreateStart(r, MaxOrders, StockShapes, ItemLists(ItemLines, MaxItems))

NextAlone == StartAlone \/ HandlerSteps

SpecAlone == InitOrder /\ [][NextAlone]_vars

\* ------------------------------------------------ reservation specification
\* clients ask for a reservation; a client and the waiters of restaurants 1
\* and 2 ask for one on behalf of a guest
StartReservation ==
    \E r \in RReqs, b \in ReservationBodies, c \in {Owner, Stranger} :
        ReserveStart(r, "auth", b, c)

StartPublicReservation ==
    \E r \in RReqs, b \in ReservationBodies, c \in {Owner, Host, Cashier} :
        ReserveStart(r, "public", b, c)

DoReserveCheck == \E r \in RReqs : ReserveCheck(r)
DoReserveCreate == \E r \in RReqs : ReserveCreate(r)
DoRespondReservation == \E r \in RReqs : RespondReservation(r)

\* requests start only when no other reservation request is served
StartReservationAlone ==
    /\ \A r \in RReqs : rreq[r].pc = "idle"
    /\ StartReservation \/ StartPublicReservation

\* the client who made a reservation, or a waiter of restaurant 1, moves it
\* to another table or to another time
ChangeReservation ==
    \E id \in 1..MaxReservations, u \in ReservationUpdates, c \in {Owner, Host} :
        /\ u.tableId = Unset \/ (u.reservationStart = Unset /\ u.reservationEnd = Unset)
        /\ UpdateReservation(id, u, c)

\* a waiter confirms or cancels a reservation
ChangeReservationStatus ==
    \E id \in 1..MaxReservations, s \in {"CONFIRMED", "CANCELLED"},
       c \in {Host, Cashier} :
        UpdateReservationStatus(id, s, c)

\* reservations are created, changed and moved through their statuses, one
\* request at a time
NextReservation ==
    StartReservationAlone \/ DoReserveCheck \/ DoReserveCreate \/ DoRespondReservation
    \/ ChangeReservation \/ ChangeReservationStatus

SpecReservation == InitOrder /\ [][NextReservation]_vars


\* award requests whose body gives the total of the order, 6.00, or 100.50,
\* and restaurant 1 or 2
AwardWithBody ==
    \E o \in 1..3, rest \in Restaurants, amount \in {InitPrice} \cup OrderAmounts,
       a \in {WaiterR1, WaiterR2} :
        AwardStart(1, MaxTx, o, rest, amount, a)

\* one award request at a time, on a store whose writes succeed
NextAwardBody ==
    AwardWithBody \/ DoAwardCheckDuplicate \/ DoAwardFindCard \/ DoAwardCreateCard
    \/ DoInsertTransaction \/ DoReliableUpdateCard \/ DoRespondLoyalty
    \/ StaffSetStatusBetweenAwards

SpecAwardBody == InitLoyalty /\ [][NextAwardBody]_vars


\* ------------------------------------------------------ login specification
\* phones of requests: a client, a waiter, and a phone no account has
Phones == {Owner.id, Cashier.id, UnknownPhone}

\* the password of the request is the one of the account, or a wrong one
CustomerLogin ==
    \E phone \in Phones : \E pw \in {phone, WrongPassword} : Login(phone, pw)

StaffPasswordLogin ==
    \E phone \in Phones : \E pw \in {phone, WrongPassword} : StaffLogin(phone, pw)

StaffOtpSend == \E phone \in Phones : SendStaffOtp(phone)

\* the temporary token of the request is one issued for the waiter, or none
\* that was issued
LoginOtpVerify == \E code \in SubmittedCodes : VerifyLoginStart(1, Cashier.id, code)

\* a code is submitted with the waiter's phone or with an unknown phone,
\* while a login may be verified
StaffOtpVerify ==
    \E phone \in {Cashier.id, UnknownPhone}, code \in SubmittedCodes :
        VerifyStaffStart(2, phone, code)

DoIssueTokens == \E r \in VReqs : IssueTokens(r)
DoStaffRefreshToken == \E r \in VReqs : StaffRefreshToken(r)

\* calls of the five login endpoints, in any order and concurrently
NextLogin ==
    CustomerLogin \/ StaffPasswordLogin \/ StaffLoginToken \/ StaffOtpSend
    \/ SendInvalidate \/ SendCreate \/ LoginOtpVerify \/ StaffOtpVerify
    \/ DoVerifyFind \/ DoVerifyMark \/ DoIssueTokens \/ DoStaffRefreshToken
    \/ DoRespondOtp

SpecLogin == InitOtp /\ [][NextLogin]_vars


\* ------------------------------------------------------- order properties
RECURSIVE SumQuantity(_)
SumQuantity(S) ==
    IF S = {} THEN 0
    ELSE LET x == CHOOSE y \in S : TRUE IN x.quantity + SumQuantity(S \ {x})

\* units of dish d in the orders whose creation answered 200
Sold(d) == SumQuantity({it \in orderItems : it.dishId = d /\ it.orderId \in created})

\* C1: no overselling - for every dish, the quantity in successfully created
\* orders never exceeds the stock that was available (the initial quantity,
\* in a specification where only order creations run).
C1_NoOverselling == \A d \in Dishes : Sold(d) <= InitQuantity

\* C2: every dish has quantity >= 0 in every reachable state, under
\* concurrent order creations interleaved with staff quantity updates.
C2_QuantityNonNegative == \A d \in Dishes : dish[d].quantity >= 0

\* two creations have succeeded, one of them written from a stale read of
\* the dish, and the dish is sold out
C2_Witness ==
    /\ Cardinality(created) >= 2
    /\ \E d \in Dishes : dish[d].quantity = 0 /\ Sold(d) > InitQuantity

PublicOrdersGuarded ==
    \A o \in DOMAIN orders :
        orders[o].userId = NoUser =>
            /\ orders[o].type = "DINE_IN"
            /\ orders[o].tableId # NoTable
            /\ orders[o].totalAmount <= 1000

\* every order row belongs to a creation that answered 200 or is still
\* writing: a rejected request leaves no row
NoRowOfRejected ==
    \A o \in DOMAIN orders :
        o \in created \/ \E r \in Reqs : creq[r].pc \in {"item", "stock"} /\ creq[r].orderId = o

\* the step that rejects a request is taken before that request's first
\* write and changes no order, item or dish
RejectionStep ==
    \A r \in Reqs :
        (creq[r].pc # "done" /\ creq'[r].pc = "done" /\ creq'[r].status # 200)
            => /\ creq[r].pc \in {"idle", "validate", "insert"}
               /\ UNCHANGED <<dish, orders, orderItems>>

\* public requests of another type than dine-in are answered with one of
\* `statuses`, or with 422 when the body carries no item line at all
PublicWrongTypeAnswered(statuses) ==
    \A r \in Reqs :
        (creq[r].pc = "done" /\ creq[r].kind = "public" /\ creq[r].type # "DINE_IN")
            => \/ creq[r].status \in statuses
               \/ creq[r].status = 422 /\ creq[r].detail = "items"

EarnedFor(orderId) ==
    {i \in DOMAIN ltx : ltx[i].type = "EARNED" /\ ltx[i].orderId = orderId}

\* C3: at most one EARNED loyalty transaction exists per orderId in every
\* reachable state, under any interleaving of award and manual-transaction
\* requests.
C3_AtMostOneEarned == \A o \in DOMAIN orders : Cardinality(EarnedFor(o)) <= 1

RECURSIVE SumPoints(_)
SumPoints(log) == IF log = <<>> THEN 0 ELSE Head(log).points + SumPoints(Tail(log))

\* sum of the deltas of the transactions of a card
OfCard(t, c) == t.loyaltyCardId = c
Ledger(c) == SumPoints(SelectSeq(ltx, LAMBDA t : OfCard(t, c)))

\* no loyalty handler is between its first query and its answer
NoLoyaltyRequestInFlight == \A r \in LReqs : lreq[r].pc \in {"idle", "done"}

\* C5: whenever no loyalty request is in flight, each card's points equals
\* the sum of the deltas of its transactions, under concurrent award, redeem
\* and manual requests and when the balance write fails.
C5_LedgerConsistent ==
    NoLoyaltyRequestInFlight => \A u \in Users : cards[u].points = Ledger(u)

\* the REDEEMED row of a redemption of p points on card c
RedeemedRow(c, restaurantId, p) ==
    [loyaltyCardId |-> c, restaurantId |-> restaurantId, points |-> -p,
     type |-> "REDEEMED", orderId |-> NoOrder]

\* a finished redeem request was accepted exactly when `accepted` holds of
\* it; accepted, its row is the last of the log and the balance is the one
\* it read less the points
RedeemAnswered(accepted(_)) ==
    \A r \in LReqs :
        (lreq[r].pc = "done" /\ lreq[r].kind = "redeem") =>
            LET q == lreq[r]
            IN  /\ q.status = 200 <=> accepted(q)
                /\ q.status = 200 =>
                      /\ q.txId = Len(ltx)
                      /\ ltx[q.txId] = RedeemedRow(q.cardId, q.restaurantId, q.asked)
                      /\ cards[q.cardId].points = q.cardPoints - q.asked

\* the steps of a redeem request: the insert appends its one row and leaves
\* the balance, the balance write takes exactly the points off the balance
\* and leaves the log, and a rejection is answered before the insert and
\* changes neither
RedeemStep ==
    \A r \in LReqs :
        /\ (lreq[r].pc = "insert" /\ lreq[r].kind = "redeem" /\ lreq'[r].pc = "update")
              => /\ ltx' = Append(ltx, RedeemedRow(lreq[r].cardId, lreq[r].restaurantId,
                                                   lreq[r].asked))
                 /\ cards' = cards
        /\ (lreq[r].pc = "update" /\ lreq[r].kind = "redeem" /\ lreq'[r].pc = "done")
              => /\ cards'[lreq[r].cardId].points
                       = cards[lreq[r].cardId].points - lreq[r].asked
                 /\ ltx' = ltx
        /\ (lreq[r].pc # "done" /\ lreq'[r].pc = "done" /\ lreq'[r].kind = "redeem"
            /\ lreq'[r].status # 200)
              => /\ lreq[r].pc \in {"idle", "restaurant"}
                 /\ UNCHANGED <<cards, ltx>>

\* the conditions the claim names: a positive multiple of 10, at least the
\* program minimum, at most the balance of the card
RedeemableAsStated(q) ==
    /\ q.asked > 0 /\ q.asked % 10 = 0
    /\ q.asked >= 100
    /\ cards[q.cardId].exists /\ q.asked <= q.cardPoints

\* the same, at a restaurant that exists and is active
Redeemable(q) ==
    /\ RedeemableAsStated(q)
    /\ q.restaurantId \in Restaurants /\ RestaurantIsActive(q.restaurantId)

C4_UsageWithinLimit ==
    (promo.exists /\ promo.maxUses # NoLimit) => promo.currentUses <= promo.maxUses

\* the quote as the claim words it
StatedQuote(p, t, orderAmount) ==
    LET notApplicable ==
            \/ ~RestaurantIsActive(p.restaurantId)
            \/ ~p.isActive
            \/ t < p.startDate
            \/ t > p.endDate
            \/ p.maxUses # NoLimit /\ p.currentUses >= p.maxUses
            \/ p.minOrderAmount # NoMinimum /\ orderAmount < p.minOrderAmount
        discount ==
            IF p.discountType = "PERCENTAGE"
            THEN (orderAmount * p.discountValue) \div 100
            ELSE Min(p.discountValue, orderAmount)
    IN  IF notApplicable
        THEN [status |-> 200, orderAmount |-> orderAmount, applicable |-> FALSE,
              discountAmount |-> 0, finalAmount |-> orderAmount]
        ELSE [status |-> 200, orderAmount |-> orderAmount, applicable |-> TRUE,
              discountAmount |-> discount, finalAmount |-> Max(0, orderAmount - discount)]

\* a step that answers a calculate request about the promotion
QuoteStep ==
    (quote' # quote /\ promo.exists) =>
        /\ quote' = StatedQuote(promo, now, quote'.orderAmount)
        /\ UNCHANGED <<promo, preq, now>>

\* C9: calculate is a pure quote: not applicable (discount 0, final =
\* orderAmount) iff the restaurant or the promotion is inactive, now is
\* outside [startDate, endDate], maxUses is reached or orderAmount <
\* minOrderAmount; otherwise applicable with the PERCENTAGE or FIXED_AMOUNT
\* discount and final = max(0, orderAmount - discount); no state changes.
C9_PureQuote == [][QuoteStep]_vars

\* ----------------------------------------------------- payment properties
\* an initiate request is answered while a Payment row of its order exists:
\* the answer is the flagged PAYMENT_EXISTS, the gateway was not called and
\* no row is created
LaterInitiateStep ==
    \A r \in PayReqs :
        (payreq[r].pc \in {"existing", "create"} /\ payreq'[r].pc = "done"
         /\ PaymentExists(payreq[r].orderId))
            => /\ payreq'[r].status = 200
               /\ ~payreq'[r].success
               /\ payreq'[r].error = "PAYMENT_EXISTS"
               /\ ~payreq'[r].calledGateway
               /\ payments' = payments

\* every order has at most one Payment row
AtMostOnePayment ==
    \A o \in DOMAIN orders : Cardinality({p \in payments : p.orderId = o}) <= 1

\* C8: under any interleaving of initiate calls at most one Payment row
\* exists per order, and every initiate answered once the row exists returns
\* the flagged PAYMENT_EXISTS response without calling the gateway and
\* without creating a row.
C8_OnePaymentPerOrder == []AtMostOnePayment /\ [][LaterInitiateStep]_vars

\* ------------------------------------------------- atomicity of a creation
\* the OrderItem rows of an order
OrderLines(o) == {it \in orderItems : it.orderId = o}

RECURSIVE SumTotalPrice(_)
SumTotalPrice(S) ==
    IF S = {} THEN 0
    ELSE LET x == CHOOSE y \in S : TRUE IN x.totalPrice + SumTotalPrice(S \ {x})

\* a handler is between the insert of the order row and its answer
BeingCreated(o) ==
    \E r \in Reqs : creq[r].pc \in {"item", "stock"} /\ creq[r].orderId = o

\* C11: an order is created atomically with its OrderItems: every Order row
\* that no handler is still writing belongs to a creation that answered 200,
\* has at least one OrderItem and has all its requested lines (their prices
\* add up to the order's subtotal), also after an item insert or a dish
\* update has failed; a creation that reports an error leaves no Order row.
C11_CreatedAtomically ==
    \A o \in DOMAIN orders :
        \/ BeingCreated(o)
        \/ /\ o \in created
           /\ OrderLines(o) # {}
           /\ SumTotalPrice(OrderLines(o)) = orders[o].subtotal


\* ------------------------------------------- validation before mutation
\* delivery orders that exist or are being validated or written
Deliveries ==
    Cardinality({o \in DOMAIN orders : orders[o].type = "DELIVERY"})
    + Cardinality({r \in Reqs : creq[r].pc \in {"validate", "insert"}
                                /\ creq[r].type = "DELIVERY"})

\* every Address row belongs to a delivery order that was not rejected
NoAddressOfRejected == addresses <= Deliveries

\* C12: validation errors are reported before any mutation: on
\* create_public_order, create_order and create_delivery_order a request that
\* fails a validation is answered with an error in a step that changes no
\* order, item or dish, and leaves no Order, OrderItem or Address row.
C12_ValidationBeforeMutation ==
    /\ [](NoAddressOfRejected /\ NoRowOfRejected)
    /\ [][RejectionStep]_vars


\* answers of the gateway that are not a payment form
GatewayFailures == {"refused", "malformed", "unreachable"}

\* a step in which the gateway is called and does not answer with a payment
\* form: the request ends with 502 and no Payment row or order changes
GatewayFailureStep ==
    \A r \in PayReqs, answer \in GatewayFailures :
        (InitiateCheckExisting(r, answer) /\ ~PaymentExists(payreq[r].orderId))
            => /\ payreq'[r].pc = "done"
               /\ payreq'[r].status = 502
               /\ ~payreq'[r].success
               /\ payments' = payments
               /\ orders' = orders

\* C13: initiate treats any non-2xx or malformed gateway response and any
\* timeout or connection failure as GatewayError (HTTP 502), never as
\* success and never as an internal error; no Payment row is persisted and
\* paymentStatus is unchanged.
C13_GatewayErrors == [][GatewayFailureStep]_vars


\* ------------------------------------------------- order-life properties
\* a step in which the callback for order number o is answered
CallbackStep(o) ==
    (confirmation' # confirmation /\ confirmation'.number = o) =>
        /\ o \in DOMAIN orders =>
              /\ confirmation'.status = 200
              /\ orders'[o].paymentStatus = "PAID"
              /\ \A f \in DOMAIN orders[o] \ {"paymentStatus"} : orders'[o][f] = orders[o][f]
              /\ \A p \in DOMAIN orders \ {o} : orders'[p] = orders[p]
        /\ o \notin DOMAIN orders => orders' = orders
        /\ DOMAIN orders' = DOMAIN orders
        /\ UNCHANGED <<dish, orderItems, cards, ltx, payments>>

\* C14: confirmCallback for an existing order number sets paymentStatus to
\* PAID whatever the prior paymentStatus and order status and whether or not
\* a Payment row exists, and leaves every other order field, all stock and
\* the loyalty ledger unchanged; for an unknown number it changes nothing.
C14_CallbackSetsPaid == [][\A o \in OrderNumbers : CallbackStep(o)]_vars

\* order 1, cancelled, without a Payment row and with its points awarded,
\* has been confirmed as paid
C14_Witness ==
    /\ orders[1].paymentStatus = "PAID"
    /\ orders[1].status = "CANCELLED"
    /\ ~PaymentExists(1)
    /\ Len(ltx) = 1 /\ dish[1].quantity = 0


\* the orders that have no owning user
GuestOrders == {o \in DOMAIN orders : orders[o].userId = NoUser}

\* what a public lookup of number n may show: a function of n and of the
\* rows of the guest orders alone
GuestView(n) ==
    IF n \in GuestOrders
    THEN [status |-> 200, detail |-> "", order |-> <<orders[n]>>,
          items |-> {it \in orderItems : it.orderId = n}]
    ELSE [status |-> 404, detail |-> "Order not found", order |-> <<>>, items |-> {}]

\* a step in which a public lookup of number n is answered
PublicLookupStep(n) ==
    (publicStatus' # publicStatus /\ publicStatus'.number = n) =>
        /\ [f \in DOMAIN GuestView(n) |-> publicStatus'[f]] = GuestView(n)
        /\ UNCHANGED <<orderVars, loyaltyVars, payVars>>

\* C15: getPublicStatus returns an order only if it has no owning user: for
\* an order with userId set the response is the same NotFound as for a number
\* no order has, and every response is determined by the number and the
\* guest orders alone, so it reveals nothing about the orders of users.
C15_PublicStatusHidesUsers == [][\A n \in OrderNumbers : PublicLookupStep(n)]_vars

\* the lookup of order 1, which user 1 owns, was answered NotFound
C15_Witness ==
    /\ publicStatus.number = 1 /\ publicStatus.status = 404
    /\ orders[1].userId # NoUser
    /\ orders[1].status = "READY"


\* position of a status on the path PENDING .. COMPLETED
StatusRank(s) ==
    CASE s = "PENDING" -> 1
      [] s = "CONFIRMED" -> 2
      [] s = "PREPARING" -> 3
      [] s = "READY" -> 4
      [] s = "OUT_FOR_DELIVERY" -> 5
      [] s = "COMPLETED" -> 6
      [] OTHER -> 7

\* a move forward along the path, or a cancellation before COMPLETED
StatusMovesForward(old, new) ==
    /\ old \notin {"COMPLETED", "CANCELLED"}
    /\ new = "CANCELLED" \/ StatusRank(new) > StatusRank(old)

\* C16: order status is monotonic: every change of an order's status moves
\* it forward along PENDING, CONFIRMED, PREPARING, READY, OUT_FOR_DELIVERY,
\* COMPLETED, or to CANCELLED from a status before COMPLETED; a COMPLETED
\* order is never cancelled or reopened.
C16_StatusMonotonic ==
    [][\A o \in DOMAIN orders :
          orders'[o].status # orders[o].status
              => StatusMovesForward(orders[o].status, orders'[o].status)]_vars


\* ----------------------------------------------------- award properties
\* an award request that is answered: accepted, the order of its one EARNED
\* row exists, has an owning user and is COMPLETED, no other EARNED row
\* names the order, the row carries floor(orderAmount) points and is the
\* last of the log, and the balance is the one read plus those points
AwardAnswered ==
    \A r \in LReqs :
        (lreq[r].pc = "done" /\ lreq[r].kind = "award" /\ lreq[r].status = 200) =>
            LET q == lreq[r]
                row == ltx[q.txId]
                o == row.orderId
            IN  /\ q.txId = Len(ltx)
                /\ o \in DOMAIN orders
                /\ orders[o].userId # NoUser /\ orders[o].userId = q.cardId
                /\ orders[o].status = "COMPLETED"
                /\ EarnedFor(o) = {q.txId}
                /\ row = [loyaltyCardId |-> q.cardId, restaurantId |-> q.restaurantId,
                          points |-> q.asked \div 100, type |-> "EARNED", orderId |-> o]
                /\ cards[q.cardId].points = q.cardPoints + q.asked \div 100

\* the steps of an award request: a rejection changes neither a balance nor
\* the log; the log grows by one row at a time
AwardStep ==
    /\ \A r \in LReqs :
          (lreq[r].pc # "done" /\ lreq'[r].pc = "done" /\ lreq'[r].kind = "award"
           /\ lreq'[r].status # 200)
              => /\ ltx' = ltx
                 /\ \A u \in Users : cards'[u].points = cards[u].points
    /\ Len(ltx') <= Len(ltx) + 1

\* C17: award run alone fails and changes neither the card balance nor the
\* transaction log unless the order exists, has an owning user, is COMPLETED
\* and has no EARNED transaction; on success it appends exactly one EARNED
\* transaction of the order with points = floor(orderAmount * 1.0) and adds
\* the same amount to the owner's card.points, so that a second award for
\* the same order fails.
C17_AwardAlone == []AwardAnswered /\ [][AwardStep]_vars

\* the award for order 1 has been accepted after one for it was refused
\* while the order was not completed
C17_Witness ==
    \E r \in LReqs :
        /\ lreq[r].pc = "done" /\ lreq[r].kind = "award" /\ lreq[r].status = 200
        /\ lreq[r].asked = 10050
        /\ ltx = <<[loyaltyCardId |-> 1, restaurantId |-> 1, points |-> 100,
                    type |-> "EARNED", orderId |-> 1]>>
        /\ cards[1].points = 100


\* ------------------------------------------ manual-transaction properties
\* C18: manualTransaction accepts a REDEEMED entry only if points is
\* negative and |points| <= card.points, and an EARNED or BONUS entry only
\* if points is positive; an accepted entry changes card.points by exactly
\* its points.
C18_ManualSigns ==
    \A r \in LReqs :
        (lreq[r].pc = "done" /\ lreq[r].kind = "manual" /\ lreq[r].status = 200) =>
            LET q == lreq[r]
                row == ltx[q.txId]
            IN  /\ row.type = "REDEEMED" => row.points < 0 /\ -row.points <= q.cardPoints
                /\ row.type \in {"EARNED", "BONUS"} => row.points > 0
                /\ cards[q.cardId].points = q.cardPoints + row.points


\* ------------------------------------------------------ access properties
\* the callers of initiate in the payment specification
Callers == {Owner, Stranger, Cashier}

\* non-admin staff of another restaurant than the order's
ForeignStaff(c, o) ==
    /\ c.role \in StaffRoles \ {"ADMIN"}
    /\ c.restaurantId # orders[o].restaurantId

\* a step in which initiate is entered for an existing order by staff of
\* another restaurant, or by a client who does not own the order: the
\* request is answered Forbidden
InitiateEntryStep ==
    \A r \in PayReqs, o \in DOMAIN orders, c \in Callers :
        (InitiateStart(r, MaxGatewayCalls, o, c)
         /\ (ForeignStaff(c, o) \/ (c.role = "CLIENT" /\ orders[o].userId # c.id)))
            => /\ payreq'[r].pc = "done"
               /\ payreq'[r].status = 403

\* C19: restaurant-scoped and owner-only access: a payment initiate by a
\* non-admin staff member whose restaurantId differs from the order's
\* restaurant is rejected as Forbidden and changes nothing, and a CLIENT can
\* initiate a payment only for an order they own.
C19_ScopedAccess == [][InitiateEntryStep]_vars


\* -------------------------------------------------------- menu properties
\* C20: isAvailable auto-clears when quantity reaches 0: in every reachable
\* state, after any sequence of order creations, update_dish_quantity,
\* update_dish and toggle_dish_availability, a dish with quantity 0 has
\* isAvailable false.
C20_SoldOutUnavailable == \A d \in Dishes : dish[d].quantity = 0 => ~dish[d].isAvailable


\* ------------------------------------------------ percentage properties
\* C21: every PERCENTAGE promotion has discountValue <= 100 in every
\* reachable state, after any sequence of create_promotion and
\* update_promotion calls, so that the percentage discount quoted for an
\* order amount that is not negative never exceeds that amount.
C21_PercentageWithin ==
    /\ (promo.exists /\ promo.discountType = "PERCENTAGE") => promo.discountValue <= 100
    /\ (quote.applicable /\ quote.orderAmount >= 0 /\ promo.discountType = "PERCENTAGE")
          => quote.discountAmount <= quote.orderAmount


\* ---------------------------------------------- writers of the two statuses
\* the step changes the status / the paymentStatus of an order
StatusChanged == \E o \in DOMAIN orders : orders'[o].status # orders[o].status
PaymentStatusChanged ==
    \E o \in DOMAIN orders : orders'[o].paymentStatus # orders[o].paymentStatus

\* the step belongs to a request a CLIENT made on a payment OTP endpoint
ClientOtpStep ==
    \E r \in VReqs : vreq[r].pc \notin {"idle", "done"} /\ vreq[r].role = "CLIENT"
                     /\ vreq'[r] # vreq[r]

\* C22: an order's status changes only through the staff update_order_status
\* action, and its paymentStatus only through the gateway callback or the
\* staff update_payment_status override: no request a CLIENT makes through
\* another endpoint, the payment OTP endpoints included, changes either.
C22_OnlyStaffOrGateway ==
    [][/\ StatusChanged => StaffUpdateOrderStatus
       /\ PaymentStatusChanged => (GatewayCallback \/ StaffUpdatePaymentStatus)
       /\ ClientOtpStep => ~(StatusChanged \/ PaymentStatusChanged)]_vars


\* ------------------------------------------------- price snapshot properties
\* the items and the subtotal of an order whose creation has answered
SnapshotConsistent ==
    \A o \in created :
        /\ \A it \in OrderLines(o) : it.totalPrice = it.unitPrice * it.quantity
        /\ orders[o].subtotal = SumTotalPrice(OrderLines(o))

\* the validation of a line keeps the price it reads from the dish, the
\* insert of a line writes the price kept, and no step changes an item or
\* the subtotal of an order that exists
SnapshotStep ==
    /\ \A r \in Reqs :
          (creq[r].pc = "validate" /\ creq'[r].pc \in {"validate", "insert"}
           /\ Len(creq'[r].validated) > Len(creq[r].validated)) =>
              LET v == creq'[r].validated[Len(creq'[r].validated)]
              IN  v.unitPrice = dish[v.dishId].price
    /\ \A r \in Reqs :
          (creq[r].pc = "item" /\ creq'[r].pc = "stock") =>
              \E it \in orderItems' \ orderItems :
                  /\ it.orderId = creq[r].orderId /\ it.line = creq[r].i
                  /\ it.unitPrice = creq[r].validated[creq[r].i].unitPrice
    /\ orderItems \subseteq orderItems'
    /\ \A o \in DOMAIN orders : orders'[o].subtotal = orders[o].subtotal

OneCardPerUser ==
    /\ \A u \in Users : cards[u].rows <= 1 /\ (cards[u].exists <=> cards[u].rows = 1)
    /\ \A r \in LReqs :
          (lreq[r].pc = "done" /\ lreq[r].kind = "card" /\ lreq[r].status = 200)
              => cards[lreq[r].cardId].exists

\* the steps of a card read: the call on a user without a card creates the
\* card with 0 points, the call on a user with a card returns it with its
\* points, and in both cases no points of an existing card change
MyCardStep ==
    \A r \in LReqs, u \in Users :
        (lreq'[r] # lreq[r] /\ lreq'[r].pc # "idle" /\ lreq'[r].kind = "card"
         /\ lreq'[r].cardId = u) =>
            /\ cards[u].exists =>
                  /\ cards' = cards
                  /\ lreq[r].pc = "idle" =>
                        /\ lreq'[r].pc = "done" /\ lreq'[r].status = 200
                        /\ lreq'[r].cardPoints = cards[u].points
            /\ cards'[u].exists /\ ~cards[u].exists =>
                  /\ cards'[u] = [exists |-> TRUE, points |-> 0, rows |-> 1]
                  /\ lreq'[r].pc = "done" /\ lreq'[r].status = 200
            /\ ltx' = ltx

\* C24: getOrCreateCard (get_my_loyalty_card, get_my_loyalty_stats, award)
\* is idempotent: the first call for a user without a card creates exactly
\* one card with 0 points, a repeated call returns that card without
\* changing its points, and in every reachable state, also after concurrent
\* first calls, there is at most one LoyaltyCard per user.
C24_CardIdempotent == []OneCardPerUser /\ [][MyCardStep]_vars

\* two first reads ran concurrently: one created the card, the other was
\* refused by the unique key, and the card has since earned points
C24_Witness ==
    /\ cards[1].exists /\ cards[1].rows = 1 /\ cards[1].points > 0
    /\ \E r \in LReqs :
          lreq[r].pc = "done" /\ lreq[r].kind = "card" /\ lreq[r].status = 500


\* ----------------------------------------------------- balance properties
\* C25: card.points >= 0 in every reachable state after any sequence of
\* award, redeem and manual-transaction calls of any transaction type,
\* EXPIRED included, and a redemption of more points than the balance is
\* refused as insufficient.
C25_BalanceNonNegative ==
    /\ \A u \in Users : cards[u].points >= 0
    /\ \A r \in LReqs :
          (lreq[r].pc = "done" /\ lreq[r].kind = "redeem" /\ lreq[r].asked > 0
           /\ lreq[r].asked % 10 = 0 /\ cards[lreq[r].cardId].exists
           /\ lreq[r].asked > lreq[r].cardPoints)
              => lreq[r].status = 400 /\ lreq[r].detail = "insufficient points"


\* quantity of dish d on the lines of the orders in O
Ordered(O, d) == SumQuantity({it \in orderItems : it.orderId \in O /\ it.dishId = d})

\* C26: when order creations run alone and no handler is at work, every dish
\* holds its initial quantity less the quantity of all the lines created for
\* it, and no created order has lines that together take more of a dish than
\* the earlier orders left in stock, also when a dish is on several lines
C26_StockAccounting ==
    (\A r \in Reqs : creq[r].pc \in {"idle", "done"}) =>
        \A d \in Dishes :
            /\ dish[d].quantity = InitQuantity - Ordered(created, d)
            /\ \A o \in created :
                  Ordered({o}, d) <= InitQuantity - Ordered({p \in created : p < o}, d)

\* two rows hold the same table at overlapping times
DoubleBooked(a, b) ==
    /\ a.tableId # NoTable
    /\ a.tableId = b.tableId
    /\ a.status \in {"PENDING", "CONFIRMED"}
    /\ b.status \in {"PENDING", "CONFIRMED"}
    /\ a.reservationStart < b.reservationEnd
    /\ b.reservationStart < a.reservationEnd

\* C27: no double booking - in every reachable state no two PENDING or
\* CONFIRMED reservations of the same table overlap in time
C27_NoDoubleBooking ==
    \A i, j \in DOMAIN reservations :
        i # j => ~DoubleBooked(reservations[i], reservations[j])

\* C28: every EARNED transaction of an order agrees with the order: its
\* points are the whole part of the order's stored totalAmount, its
\* restaurantId is the order's, and it is on the card of the order's user
C28_EarnedMatchesOrder ==
    \A i \in DOMAIN ltx :
        (ltx[i].type = "EARNED" /\ ltx[i].orderId \in DOMAIN orders) =>
            LET order == orders[ltx[i].orderId]
            IN  /\ ltx[i].points = PointsEarned(order.totalAmount)
                /\ ltx[i].restaurantId = order.restaurantId
                /\ ltx[i].loyaltyCardId = order.userId

\* C29: a one-time code is single-use - no stored code is accepted more than
\* once, also by verify calls that run concurrently, and a verify request
\* whose code was accepted has matched a stored record
C29_SingleUse ==
    /\ \A i \in DOMAIN otpcodes : otpcodes[i].accepts <= 1
    /\ \A r \in VReqs :
          (vreq[r].pc = "pay" \/ (vreq[r].pc = "done" /\ vreq[r].status = 200))
              => vreq[r].otpId \in DOMAIN otpcodes

\* C30: staff two-factor login - every access token returned for a staff
\* account was returned after the account's password was verified (a
\* temporary token was issued for it) and a one-time code stored for the
\* account was then accepted
C30_StaffTwoFactor ==
    \A t \in tokens :
        AccountOf(t.userId).role \in StaffRoles =>
            /\ t.userId \in temps
            /\ t.otpId \in DOMAIN otpcodes
            /\ otpcodes[t.otpId].userId = t.userId
            /\ otpcodes[t.otpId].purpose = "STAFF_AUTH"
            /\ otpcodes[t.otpId].accepts >= 1

====
